---- MODULE Spec2Model ----
(***************************************************************************)
(* Ping SSO onboarding agent: the evidence-gated environment state machine *)
(* (app/state_machine.py), the orchestrating tool update_env_state         *)
(* (app/tools.py) over the thread repository (app/database.py), and the    *)
(* human-in-the-loop approval manager (app/hitl.py).                       *)
(*                                                                         *)
(* Calls made one after the other are single actions.  Calls that overlap   *)
(* are coroutines on one event loop: each runs from one await to the next  *)
(* as one action, and its frame is kept in tasks while it is suspended.    *)
(*                                                                         *)
(* Conventions.  A Python Optional is a sequence of length 0 (None) or 1.  *)
(* A call that can raise returns a record whose field exc is "none" or the *)
(* name of the exception.  Every operation records its outcome in ret.     *)
(***************************************************************************)
EXTENDS Integers, Sequences, FiniteSets, TLC

VARIABLES
    store,              \* ThreadRepository: thread_id -> persisted ClientThread
    audit,              \* ThreadRepository: the audit_log table, oldest first
    pending_approvals,  \* HITLManager.pending_approvals, in insertion order
    now,                \* the clock read by datetime.utcnow(), in ticks
    ret,                \* outcome of the last operation
    tasks               \* coroutines started concurrently: their frames, in start order

vars == <<store, audit, pending_approvals, now, ret, tasks>>

-----------------------------------------------------------------------------
(* Generic helpers *)

Range(s) == {s[i] : i \in 1..Len(s)}

None == <<>>

Some(v) == <<v>>

\* Python list.index: the 0-based position of the first occurrence, or ValueError.
index(list, x) ==
    IF \E i \in 1..Len(list) : list[i] = x
    THEN [exc |-> "none",
          val |-> (CHOOSE i \in 1..Len(list) :
                      list[i] = x /\ \A j \in 1..(i - 1) : list[j] # x) - 1]
    ELSE [exc |-> "ValueError", val |-> 0]

-----------------------------------------------------------------------------
(* app/models.py *)

EnvName == {"dev", "staging", "prod"}

\* Insertion order of ClientThread.environments
EnvOrder == <<"dev", "staging", "prod">>

EnvState == {"NotStarted", "FormsRaised", "CredsIssued", "AccessProvisioned",
             "Validated", "SignoffSent", "Approved", "Complete",
             "Blocked", "ChangesRequested", "Abandoned"}

TicketRef(id, kind, status) == [id |-> id, kind |-> kind, status |-> status]

SecretRef(name) == [name |-> name, mask |-> "****"]

ScreenshotRef(label) == [key |-> "screenshots/" \o label, label |-> label]

\* Evidence(): every collection empty, no secret
Evidence ==
    [tickets |-> <<>>, secret |-> None, screenshots |-> <<>>,
     emails |-> <<>>, notes |-> <<>>]

\* Environment(name=...): state NotStarted, empty evidence
Environment(name) == [name |-> name, state |-> "NotStarted", evidence |-> Evidence]

\* ClientThread(environments=..., ...) as get_thread builds it from the
\* stored rows: __init__ replaces an empty mapping by the three environments.
ClientThreadFrom(thread_id, environments, blockers, next_actions) ==
    [thread_id |-> thread_id,
     environments |-> IF DOMAIN environments = {}
                      THEN [e \in EnvName |-> Environment(e)]
                      ELSE environments,
     blockers |-> blockers,
     next_actions |-> next_actions]

ClientThread_DevOnly(thread_id) ==
    [thread_id |-> thread_id,
     environments |-> [e \in {"dev"} |-> Environment(e)],
     blockers |-> <<>>,
     next_actions |-> <<>>]

\* ClientThread(...): the constructor fills in the three environments
ClientThread(thread_id) ==
    [thread_id |-> thread_id,
     environments |-> [e \in EnvName |-> Environment(e)],
     blockers |-> <<>>,
     next_actions |-> <<>>]

AuditLog(thread_id, actor, action, details) ==
    [thread_id |-> thread_id, actor |-> actor, action |-> action, details |-> details]

-----------------------------------------------------------------------------
(* app/state_machine.py *)

STATE_ORDER ==
    <<"NotStarted", "FormsRaised", "CredsIssued", "AccessProvisioned",
      "Validated", "SignoffSent", "Approved", "Complete">>

SPECIAL_STATES_NoAbandoned == {"Blocked", "ChangesRequested"}

SPECIAL_STATES == {"Blocked", "ChangesRequested", "Abandoned"}

NormalProgression_AnyLater(current, target) ==
    LET ci == index(STATE_ORDER, current)
        ti == index(STATE_ORDER, target)
    IN  IF ci.exc # "none" \/ ti.exc # "none"
        THEN [exc |-> "none", val |-> FALSE]
        ELSE [exc |-> "none", val |-> ti.val >= ci.val + 1]

NormalProgression_ErrorIsLegal(current, target) ==
    LET ci == index(STATE_ORDER, current)
        ti == index(STATE_ORDER, target)
    IN  IF ci.exc # "none" \/ ti.exc # "none"
        THEN [exc |-> "none", val |-> TRUE]
        ELSE [exc |-> "none", val |-> ti.val = ci.val + 1]

\* The try block of can_transition: both states are looked up in
\* STATE_ORDER, a ValueError of either lookup is caught and gives False.
NormalProgression(current, target) ==
    LET ci == index(STATE_ORDER, current)
        ti == index(STATE_ORDER, target)
    IN  IF ci.exc # "none" \/ ti.exc # "none"
        THEN [exc |-> "none", val |-> FALSE]
        ELSE [exc |-> "none", val |-> ti.val = ci.val + 1]

\* StateMachine.can_transition.  The ChangesRequested branch looks up the
\* current state in STATE_ORDER outside the try block.
can_transition(current, target) ==
    IF target \in SPECIAL_STATES THEN [exc |-> "none", val |-> TRUE]
    ELSE IF current = "ChangesRequested" THEN
        LET ci == index(STATE_ORDER, current) IN
        IF ci.exc # "none" THEN [exc |-> ci.exc, val |-> FALSE]
        ELSE [exc |-> "none",
              val |-> target \in Range(SubSeq(STATE_ORDER, 1, ci.val))]
    ELSE NormalProgression(current, target)

Err(msg, args) == [msg |-> msg, args |-> args]

required_labels_NoToken == <<"login", "consent", "landing">>

required_labels == <<"login", "consent", "landing", "token">>

CompleteErrors_NoPrerequisite(env, thread) == <<>>

\* The Complete branch of validate_transition: staging needs dev Complete,
\* prod needs staging Complete, when a thread is given.
CompleteErrors_DevIsEnough(env, thread) ==
    IF env \in {"staging", "prod"} /\ thread # None THEN
        LET prev_env == "dev"
            prev_env_state == thread[1].environments[prev_env].state
        IN  IF prev_env_state # "Complete"
            THEN <<Err("requires previous environment to be complete", <<env, prev_env>>)>>
            ELSE <<>>
    ELSE <<>>

CompleteErrors_AbandonedCounts(env, thread) ==
    IF env \in {"staging", "prod"} /\ thread # None THEN
        LET prev_env == IF env = "staging" THEN "dev" ELSE "staging"
            prev_env_state == thread[1].environments[prev_env].state
        IN  IF prev_env_state \notin {"Complete", "Abandoned"}
            THEN <<Err("requires previous environment to be complete", <<env, prev_env>>)>>
            ELSE <<>>
    ELSE <<>>

CompleteErrors(env, thread) ==
    IF env \in {"staging", "prod"} /\ thread # None THEN
        LET prev_env == IF env = "staging" THEN "dev" ELSE "staging"
            prev_env_state == thread[1].environments[prev_env].state
        IN  IF prev_env_state # "Complete"
            THEN <<Err("requires previous environment to be complete", <<env, prev_env>>)>>
            ELSE <<>>
    ELSE <<>>

EvidenceErrors_ApprovalEmailOptional(target, env, evidence, thread) ==
    IF target = "FormsRaised" THEN
        IF Len(evidence.tickets) = 0
        THEN <<Err("FormsRaised requires at least one ticket", <<>>)>> ELSE <<>>
    ELSE IF target = "CredsIssued" THEN
        IF evidence.secret = None
        THEN <<Err("CredsIssued requires client secret evidence", <<>>)>> ELSE <<>>
    ELSE IF target = "AccessProvisioned" THEN
        IF env \in {"dev", "staging"} THEN
            LET IsGlam(t) == t.kind \in {"GLAM", "GWAM"}
                glam_tickets == SelectSeq(evidence.tickets, IsGlam)
            IN  IF Len(glam_tickets) = 0
                THEN <<Err("requires GLAM/GWAM tickets for access provisioning", <<env>>)>>
                ELSE <<>>
        ELSE <<>>
    ELSE IF target = "Validated" THEN
        LET screenshot_labels == [i \in 1..Len(evidence.screenshots) |->
                                    evidence.screenshots[i].label]
            Missing(label) == label \notin Range(screenshot_labels)
            missing_labels == SelectSeq(required_labels, Missing)
        IN  IF Len(missing_labels) > 0
            THEN <<Err("Validation requires screenshots", missing_labels)>>
            ELSE <<>>
    ELSE IF target = "SignoffSent" THEN
        IF Len(evidence.emails) = 0
        THEN <<Err("SignoffSent requires email evidence", <<>>)>> ELSE <<>>
    ELSE IF target = "Approved" THEN <<>>
    ELSE IF target = "Complete" THEN CompleteErrors(env, thread)
    ELSE <<>>

EvidenceErrors_GlamInProdToo(target, env, evidence, thread) ==
    IF target = "FormsRaised" THEN
        IF Len(evidence.tickets) = 0
        THEN <<Err("FormsRaised requires at least one ticket", <<>>)>> ELSE <<>>
    ELSE IF target = "CredsIssued" THEN
        IF evidence.secret = None
        THEN <<Err("CredsIssued requires client secret evidence", <<>>)>> ELSE <<>>
    ELSE IF target = "AccessProvisioned" THEN
        IF env \in {"dev", "staging", "prod"} THEN
            LET IsGlam(t) == t.kind \in {"GLAM", "GWAM"}
                glam_tickets == SelectSeq(evidence.tickets, IsGlam)
            IN  IF Len(glam_tickets) = 0
                THEN <<Err("requires GLAM/GWAM tickets for access provisioning", <<env>>)>>
                ELSE <<>>
        ELSE <<>>
    ELSE IF target = "Validated" THEN
        LET screenshot_labels == [i \in 1..Len(evidence.screenshots) |->
                                    evidence.screenshots[i].label]
            Missing(label) == label \notin Range(screenshot_labels)
            missing_labels == SelectSeq(required_labels, Missing)
        IN  IF Len(missing_labels) > 0
            THEN <<Err("Validation requires screenshots", missing_labels)>>
            ELSE <<>>
    ELSE IF target = "SignoffSent" THEN
        IF Len(evidence.emails) = 0
        THEN <<Err("SignoffSent requires email evidence", <<>>)>> ELSE <<>>
    ELSE IF target = "Approved" THEN
        IF Len(evidence.emails) = 0
        THEN <<Err("Approved requires approval email evidence", <<>>)>> ELSE <<>>
    ELSE IF target = "Complete" THEN CompleteErrors(env, thread)
    ELSE <<>>

\* The errors appended by the per-target evidence rules (the if/elif chain).
EvidenceErrors(target, env, evidence, thread) ==
    IF target = "FormsRaised" THEN
        IF Len(evidence.tickets) = 0
        THEN <<Err("FormsRaised requires at least one ticket", <<>>)>> ELSE <<>>
    ELSE IF target = "CredsIssued" THEN
        IF evidence.secret = None
        THEN <<Err("CredsIssued requires client secret evidence", <<>>)>> ELSE <<>>
    ELSE IF target = "AccessProvisioned" THEN
        IF env \in {"dev", "staging"} THEN
            LET IsGlam(t) == t.kind \in {"GLAM", "GWAM"}
                glam_tickets == SelectSeq(evidence.tickets, IsGlam)
            IN  IF Len(glam_tickets) = 0
                THEN <<Err("requires GLAM/GWAM tickets for access provisioning", <<env>>)>>
                ELSE <<>>
        ELSE <<>>
    ELSE IF target = "Validated" THEN
        LET screenshot_labels == [i \in 1..Len(evidence.screenshots) |->
                                    evidence.screenshots[i].label]
            Missing(label) == label \notin Range(screenshot_labels)
            missing_labels == SelectSeq(required_labels, Missing)
        IN  IF Len(missing_labels) > 0
            THEN <<Err("Validation requires screenshots", missing_labels)>>
            ELSE <<>>
    ELSE IF target = "SignoffSent" THEN
        IF Len(evidence.emails) = 0
        THEN <<Err("SignoffSent requires email evidence", <<>>)>> ELSE <<>>
    ELSE IF target = "Approved" THEN
        IF Len(evidence.emails) = 0
        THEN <<Err("Approved requires approval email evidence", <<>>)>> ELSE <<>>
    ELSE IF target = "Complete" THEN CompleteErrors(env, thread)
    ELSE <<>>

\* StateMachine.validate_transition.  thread is an Optional ClientThread.
validate_transition(current, target, env, evidence, thread) ==
    LET ct == can_transition(current, target) IN
    IF ct.exc # "none" THEN [exc |-> ct.exc, ok |-> FALSE, errors |-> <<>>]
    ELSE IF ~ct.val THEN
        [exc |-> "none", ok |-> FALSE,
         errors |-> <<Err("Invalid transition", <<current, target>>)>>]
    ELSE
        LET errors == EvidenceErrors(target, env, evidence, thread) IN
        [exc |-> "none", ok |-> (Len(errors) = 0), errors |-> errors]

\* A blocker string; args are the values interpolated into it.
Blocker(text, args) == [text |-> text, args |-> args]

\* StateMachine.get_next_actions
get_next_actions(env, thread) ==
    IF env.state = "NotStarted" THEN
        <<"Create NSSR/OAuth ticket",
          "Create GLAM/GWAM tickets (if Dev/Staging)",
          "Generate redirect URIs">>
    ELSE IF env.state = "FormsRaised" THEN <<"Wait for credentials to be issued">>
    ELSE IF env.state = "CredsIssued" THEN
        (IF env.name \in {"dev", "staging"} THEN <<"Create GLAM/GWAM tickets">> ELSE <<>>)
        \o <<"Test application sign-in">>
    ELSE IF env.state = "AccessProvisioned" THEN
        <<"Capture login screenshot", "Capture consent screenshot",
          "Capture landing page screenshot", "Capture token/session screenshot">>
    ELSE IF env.state = "Validated" THEN
        <<"Send sign-off email with screenshots and redirect URIs">>
    ELSE IF env.state = "SignoffSent" THEN <<"Wait for approval email">>
    ELSE IF env.state = "Approved" THEN
        IF env.name = "prod" THEN <<"Production ready - onboarding complete">>
        ELSE <<"Proceed to next environment">>
    ELSE IF env.state = "Blocked" THEN <<"Resolve blocker and retry">>
    ELSE IF env.state = "ChangesRequested" THEN <<"Address requested changes">>
    ELSE <<>>

RECURSIVE OpenTicketBlockers(_)
\* The loop over env.evidence.tickets in get_blockers (FormsRaised branch).
OpenTicketBlockers(tickets) ==
    IF tickets = <<>> THEN <<>>
    ELSE (IF Head(tickets).status = "open"
          THEN <<Blocker("Ticket is still open", <<Head(tickets).id, Head(tickets).kind>>)>>
          ELSE <<>>)
         \o OpenTicketBlockers(Tail(tickets))

\* StateMachine.get_blockers
get_blockers(env, thread) ==
    IF env.state = "Blocked" THEN
        <<Blocker("Environment is blocked - manual intervention required", <<>>)>>
    ELSE IF env.state = "ChangesRequested" THEN
        <<Blocker("Changes requested - address feedback before proceeding", <<>>)>>
    ELSE IF env.state = "FormsRaised" THEN OpenTicketBlockers(env.evidence.tickets)
    ELSE IF env.state = "SignoffSent" THEN
        IF Len(env.evidence.emails) = 0
        THEN <<Blocker("Waiting for sign-off approval", <<>>)>> ELSE <<>>
    ELSE <<>>

RECURSIVE FirstOpen(_, _)
\* The loop of get_current_environment over the remaining names: the first
\* environment whose state is not in [complete, abandoned] is returned.
FirstOpen(thread, names) ==
    IF names = <<>> THEN None
    ELSE IF thread.environments[Head(names)].state \notin {"Complete", "Abandoned"}
         THEN Some(Head(names))
         ELSE FirstOpen(thread, Tail(names))

get_current_environment_SkipsOnlyComplete(thread) ==
    IF thread.environments["dev"].state # "Complete" THEN Some("dev")
    ELSE IF thread.environments["staging"].state # "Complete" THEN Some("staging")
    ELSE IF thread.environments["prod"].state # "Complete" THEN Some("prod")
    ELSE None

\* StateMachine.get_current_environment: Optional[EnvName]
get_current_environment(thread) == FirstOpen(thread, <<"dev", "staging", "prod">>)

\* A Python float that is the quotient of two integers, kept as the exact
\* fraction num / den with den > 0.
Fraction(num, den) == [num |-> num, den |-> den]

\* a < b and a = b on such fractions
FracLess(a, b) == a.num * b.den < b.num * a.den

FracEq(a, b) == a.num * b.den = b.num * a.den

ProgressScore_NotStartedZero(state) ==
    IF state = "Complete" THEN Len(STATE_ORDER)
    ELSE IF state \in Range(STATE_ORDER) \ {"NotStarted"}
         THEN index(STATE_ORDER, state).val + 1
         ELSE 0

\* What one environment adds to completed_states in calculate_progress:
\* total_states for complete, index + 1 for any other state of STATE_ORDER,
\* nothing otherwise.
ProgressScore(state) ==
    IF state = "Complete" THEN Len(STATE_ORDER)
    ELSE IF state \in Range(STATE_ORDER)
         THEN index(STATE_ORDER, state).val + 1
         ELSE 0

RECURSIVE CompletedStates(_, _)
\* The loop of calculate_progress over thread.environments.values()
CompletedStates(thread, names) ==
    IF names = <<>> THEN 0
    ELSE (IF Head(names) \in DOMAIN thread.environments
          THEN ProgressScore(thread.environments[Head(names)].state)
          ELSE 0)
         + CompletedStates(thread, Tail(names))

\* StateMachine.calculate_progress: min(completed / max_possible, 1.0), or
\* 0.0 for a thread without environments.
calculate_progress(thread) ==
    LET total_states == Len(STATE_ORDER)
        completed_states == CompletedStates(thread, EnvOrder)
        max_possible == total_states * Cardinality(DOMAIN thread.environments)
    IN  IF max_possible > 0
        THEN IF completed_states > max_possible
             THEN Fraction(1, 1)
             ELSE Fraction(completed_states, max_possible)
        ELSE Fraction(0, 1)

-----------------------------------------------------------------------------
(* app/database.py: ThreadRepository *)

\* ThreadRepository.get_thread: Optional[ClientThread]
get_thread(st, thread_id) ==
    IF thread_id \in DOMAIN st
    THEN Some(ClientThreadFrom(thread_id, st[thread_id].environments,
                               st[thread_id].blockers, st[thread_id].next_actions))
    ELSE None

\* ThreadRepository.create_thread: one thread row and one environment row
\* for each item of thread.environments.
create_thread(st, thread) ==
    [t \in DOMAIN st \cup {thread.thread_id} |->
        IF t = thread.thread_id THEN thread ELSE st[t]]

update_thread_KeepsEvidence(st, thread) ==
    IF thread.thread_id \notin DOMAIN st
    THEN [exc |-> "ValueError", store |-> st]
    ELSE [exc |-> "none",
          store |-> [st EXCEPT ![thread.thread_id] =
                        [thread EXCEPT !.environments =
                            [e \in DOMAIN thread.environments |->
                                [thread.environments[e] EXCEPT
                                    !.evidence = st[thread.thread_id].environments[e].evidence]]]]]

\* ThreadRepository.update_thread: overwrites the thread row and, for each
\* item of thread.environments, updates or inserts its environment row, in
\* one commit; raises ValueError for an unknown thread.
update_thread(st, thread) ==
    IF thread.thread_id \notin DOMAIN st
    THEN [exc |-> "ValueError", store |-> st]
    ELSE LET rows == st[thread.thread_id].environments
             upserted == [e \in DOMAIN rows \cup DOMAIN thread.environments |->
                            IF e \in DOMAIN thread.environments
                            THEN thread.environments[e] ELSE rows[e]]
         IN  [exc |-> "none",
              store |-> [st EXCEPT ![thread.thread_id] =
                            [thread EXCEPT !.environments = upserted]]]

\* ThreadRepository.add_audit_log: one more row in audit_log
add_audit_log(au, audit_log) == Append(au, audit_log)

-----------------------------------------------------------------------------
(* app/tools.py *)

\* CtxState.thread_repo: main.py and agent.py build every context with the
\* repository created at startup.
ctx_thread_repo == TRUE

\* CtxState.user
ctx_user == "alice"

\* The loop over thread.environments.items() that rebuilds thread.blockers.
AllBlockers(thread) ==
    get_blockers(thread.environments[EnvOrder[1]], thread)
    \o get_blockers(thread.environments[EnvOrder[2]], thread)
    \o get_blockers(thread.environments[EnvOrder[3]], thread)

\* The same loop, rebuilding thread.next_actions.
AllNextActions(thread) ==
    get_next_actions(thread.environments[EnvOrder[1]], thread)
    \o get_next_actions(thread.environments[EnvOrder[2]], thread)
    \o get_next_actions(thread.environments[EnvOrder[3]], thread)

UpdateFailed_StillAudits(st, au, msg, errors) ==
    [exc |-> "ValueError", msg |-> msg, errors |-> errors, store |-> st,
     audit |-> Append(au, [thread_id |-> "t1", actor |-> "alice",
                           action |-> "state_transition", details |-> [reason |-> msg]])]

\* The outcome of a failed update_env_state: nothing written.
UpdateFailed(st, au, msg, errors) ==
    [exc |-> "ValueError", msg |-> msg, errors |-> errors, store |-> st, audit |-> au]

\* The body of the tool update_env_state, from the repository contents
\* (st, au) to its outcome and the repository contents it leaves behind.
UpdateEnvStateBody(st, au, thread_id, env, new_state, evidence) ==
    IF ~ctx_thread_repo
    THEN UpdateFailed(st, au, "Thread repository not available", <<>>)
    ELSE
    LET loaded == get_thread(st, thread_id) IN
    IF loaded = None THEN UpdateFailed(st, au, "Thread not found", <<>>)
    ELSE
    LET thread == loaded[1] IN
    IF env \notin DOMAIN thread.environments
    THEN UpdateFailed(st, au, "Environment not found in thread", <<>>)
    ELSE
    LET env_obj == thread.environments[env]
        v == validate_transition(env_obj.state, new_state, env, evidence, Some(thread))
    IN
    IF v.exc # "none" THEN UpdateFailed(st, au, "list.index(x): x not in list", <<>>)
    ELSE IF ~v.ok THEN UpdateFailed(st, au, "Invalid state transition", v.errors)
    ELSE
    LET env_new == [env_obj EXCEPT !.state = new_state, !.evidence = evidence]
        thread1 == [thread EXCEPT !.environments[env] = env_new]
        thread2 == [thread1 EXCEPT !.blockers = AllBlockers(thread1),
                                   !.next_actions = AllNextActions(thread1)]
        saved == update_thread(st, thread2)
        entry == AuditLog(thread_id, ctx_user, "state_transition",
                          [environment |-> env,
                           from_state |-> env_new.state,
                           to_state |-> new_state,
                           evidence_count |-> Len(evidence.tickets)
                                              + Len(evidence.screenshots)
                                              + Len(evidence.emails)])
    IN
    IF saved.exc # "none" THEN UpdateFailed(st, au, "Thread not found", <<>>)
    ELSE [exc |-> "none", msg |-> "", errors |-> <<>>,
          store |-> saved.store, audit |-> add_audit_log(au, entry)]

-----------------------------------------------------------------------------
(* app/hitl.py *)

\* Clock resolution of the model: ticks per second.
TicksPerSecond == 2

\* timedelta(hours=1), in seconds
SecondsPerHour == 3600

HourTicks == SecondsPerHour * TicksPerSecond

\* The default id factory: "approval-" followed by utcnow() formatted
\* %Y%m%d%H%M%S, i.e. the clock truncated to whole seconds.
id_factory(t) == <<"approval", t \div TicksPerSecond>>

\* HITLManager.thread_repo: every HITLManager of the application is built
\* as HITLManager(ctx.thread_repo).
self_thread_repo == ctx_thread_repo

\* ApprovalRequest(...) as built by create_approval_request at time t
ApprovalRequest(t, thread_id, environment, approval_type, approvers, timeout_hours) ==
    [id |-> id_factory(t),
     thread_id |-> thread_id,
     environment |-> environment,
     approval_type |-> approval_type,
     approvers |-> approvers,
     status |-> "pending",
     created_at |-> t,
     expires_at |-> Some(t + timeout_hours * HourTicks),
     approved_by |-> None,
     approved_at |-> None,
     rejection_reason |-> None]

\* "approval_id in self.pending_approvals"
HasKey(d, k) == \E i \in 1..Len(d) : d[i].id = k

\* Position of key k in the dict d
KeyPos(d, k) == CHOOSE i \in 1..Len(d) : d[i].id = k

\* "self.pending_approvals[k] = v": a new key is appended, an existing key
\* keeps its position and gets the new value.
SetItem(d, k, v) ==
    IF HasKey(d, k) THEN [d EXCEPT ![KeyPos(d, k)] = v] ELSE Append(d, v)

\* "approval.expires_at and now > approval.expires_at"
Overdue(approval, t) == approval.expires_at # None /\ t > approval.expires_at[1]

\* HITLManager.create_approval_request
create_approval_request(thread_id, environment, approval_type, approvers, timeout_hours) ==
    LET approval == ApprovalRequest(now, thread_id, environment, approval_type,
                                    approvers, timeout_hours)
        entry == AuditLog(thread_id, "system", "approval_requested",
                          [approval_id |-> approval.id,
                           approval_type |-> approval_type,
                           environment |-> environment,
                           approvers |-> approvers,
                           expires_at |-> approval.expires_at[1]])
    IN  /\ pending_approvals' = SetItem(pending_approvals, approval.id, approval)
        /\ audit' = IF self_thread_repo THEN add_audit_log(audit, entry) ELSE audit
        /\ ret' = [op |-> "create_approval_request", val |-> approval]
        /\ UNCHANGED <<tasks, store, now>>

approve_request_NoStatusCheck(approval_id, approver) ==
    IF ~HasKey(pending_approvals, approval_id) THEN
        /\ ret' = [op |-> "approve_request", approval_id |-> approval_id,
                   approver |-> approver, val |-> FALSE]
        /\ UNCHANGED <<tasks, store, audit, pending_approvals, now>>
    ELSE
    LET pos == KeyPos(pending_approvals, approval_id)
        approval == pending_approvals[pos]
    IN
    IF Overdue(approval, now) THEN
        /\ pending_approvals' = [pending_approvals EXCEPT ![pos].status = "expired"]
        /\ ret' = [op |-> "approve_request", approval_id |-> approval_id,
                   approver |-> approver, val |-> FALSE]
        /\ UNCHANGED <<tasks, store, audit, now>>
    ELSE
        /\ pending_approvals' =
               [pending_approvals EXCEPT ![pos].status = "approved",
                                         ![pos].approved_by = Some(approver),
                                         ![pos].approved_at = Some(now)]
        /\ audit' = IF self_thread_repo
                    THEN add_audit_log(audit,
                             AuditLog(approval.thread_id, approver, "approval_granted",
                                      [approval_id |-> approval_id,
                                       approval_type |-> approval.approval_type,
                                       environment |-> approval.environment]))
                    ELSE audit
        /\ ret' = [op |-> "approve_request", approval_id |-> approval_id,
                   approver |-> approver, val |-> TRUE]
        /\ UNCHANGED <<tasks, store, now>>

\* HITLManager.approve_request
approve_request(approval_id, approver) ==
    IF ~HasKey(pending_approvals, approval_id) THEN
        /\ ret' = [op |-> "approve_request", approval_id |-> approval_id,
                   approver |-> approver, val |-> FALSE]
        /\ UNCHANGED <<tasks, store, audit, pending_approvals, now>>
    ELSE
    LET pos == KeyPos(pending_approvals, approval_id)
        approval == pending_approvals[pos]
    IN
    IF approval.status # "pending" THEN
        /\ ret' = [op |-> "approve_request", approval_id |-> approval_id,
                   approver |-> approver, val |-> FALSE]
        /\ UNCHANGED <<tasks, store, audit, pending_approvals, now>>
    ELSE IF Overdue(approval, now) THEN
        /\ pending_approvals' = [pending_approvals EXCEPT ![pos].status = "expired"]
        /\ ret' = [op |-> "approve_request", approval_id |-> approval_id,
                   approver |-> approver, val |-> FALSE]
        /\ UNCHANGED <<tasks, store, audit, now>>
    ELSE
        /\ pending_approvals' =
               [pending_approvals EXCEPT ![pos].status = "approved",
                                         ![pos].approved_by = Some(approver),
                                         ![pos].approved_at = Some(now)]
        /\ audit' = IF self_thread_repo
                    THEN add_audit_log(audit,
                             AuditLog(approval.thread_id, approver, "approval_granted",
                                      [approval_id |-> approval_id,
                                       approval_type |-> approval.approval_type,
                                       environment |-> approval.environment]))
                    ELSE audit
        /\ ret' = [op |-> "approve_request", approval_id |-> approval_id,
                   approver |-> approver, val |-> TRUE]
        /\ UNCHANGED <<tasks, store, now>>

\* HITLManager.reject_request
reject_request(approval_id, approver, reason) ==
    IF ~HasKey(pending_approvals, approval_id) THEN
        /\ ret' = [op |-> "reject_request", approval_id |-> approval_id,
                   approver |-> approver, val |-> FALSE]
        /\ UNCHANGED <<tasks, store, audit, pending_approvals, now>>
    ELSE
    LET pos == KeyPos(pending_approvals, approval_id)
        approval == pending_approvals[pos]
    IN
    IF approval.status # "pending" THEN
        /\ ret' = [op |-> "reject_request", approval_id |-> approval_id,
                   approver |-> approver, val |-> FALSE]
        /\ UNCHANGED <<tasks, store, audit, pending_approvals, now>>
    ELSE
        /\ pending_approvals' =
               [pending_approvals EXCEPT ![pos].status = "rejected",
                                         ![pos].approved_by = Some(approver),
                                         ![pos].approved_at = Some(now),
                                         ![pos].rejection_reason = Some(reason)]
        /\ audit' = IF self_thread_repo
                    THEN add_audit_log(audit,
                             AuditLog(approval.thread_id, approver, "approval_rejected",
                                      [approval_id |-> approval_id,
                                       approval_type |-> approval.approval_type,
                                       environment |-> approval.environment,
                                       reason |-> reason]))
                    ELSE audit
        /\ ret' = [op |-> "reject_request", approval_id |-> approval_id,
                   approver |-> approver, val |-> TRUE]
        /\ UNCHANGED <<tasks, store, now>>

\* "if thread_id: approvals = [a for a in approvals if a.thread_id == thread_id]"
\* thread_id is an Optional string.
InThreadFilter(a, thread_id) == thread_id = None \/ a.thread_id = thread_id[1]

get_pending_approvals_NoDemotion(thread_id) ==
    LET InFilter(a) == InThreadFilter(a, thread_id)
        IsPending(a) == a.status = "pending"
        approvals == SelectSeq(pending_approvals, InFilter)
    IN  /\ pending_approvals' = pending_approvals
        /\ ret' = [op |-> "get_pending_approvals", thread_id |-> thread_id,
                   val |-> SelectSeq(approvals, IsPending)]
        /\ UNCHANGED <<tasks, store, audit, now>>

\* HITLManager.get_pending_approvals: every request that passes the thread
\* filter and is past expires_at is set to expired, whatever its status;
\* the requests still pending are returned.
get_pending_approvals(thread_id) ==
    LET InFilter(a) == InThreadFilter(a, thread_id)
        IsPending(a) == a.status = "pending"
        swept == [i \in 1..Len(pending_approvals) |->
                    IF InFilter(pending_approvals[i]) /\ Overdue(pending_approvals[i], now)
                    THEN [pending_approvals[i] EXCEPT !.status = "expired"]
                    ELSE pending_approvals[i]]
        valid_approvals == SelectSeq(swept, InFilter)
    IN  /\ pending_approvals' = swept
        /\ ret' = [op |-> "get_pending_approvals", thread_id |-> thread_id,
                   val |-> SelectSeq(valid_approvals, IsPending)]
        /\ UNCHANGED <<tasks, store, audit, now>>

check_expired_approvals_AnyStatus ==
    LET Expiring(a) == Overdue(a, now)
        swept == [i \in 1..Len(pending_approvals) |->
                    IF Expiring(pending_approvals[i])
                    THEN [pending_approvals[i] EXCEPT !.status = "expired"]
                    ELSE pending_approvals[i]]
        hit == SelectSeq(pending_approvals, Expiring)
        expired == [i \in 1..Len(hit) |-> [hit[i] EXCEPT !.status = "expired"]]
        entries == [i \in 1..Len(expired) |->
                      AuditLog(expired[i].thread_id, "system", "approval_expired",
                               [approval_id |-> expired[i].id,
                                approval_type |-> expired[i].approval_type,
                                environment |-> expired[i].environment,
                                expired_at |-> now])]
    IN  /\ pending_approvals' = swept
        /\ audit' = IF self_thread_repo THEN audit \o entries ELSE audit
        /\ ret' = [op |-> "check_expired_approvals", val |-> expired]
        /\ UNCHANGED <<tasks, store, now>>

\* HITLManager.check_expired_approvals
check_expired_approvals ==
    LET Expiring(a) == a.status = "pending" /\ Overdue(a, now)
        swept == [i \in 1..Len(pending_approvals) |->
                    IF Expiring(pending_approvals[i])
                    THEN [pending_approvals[i] EXCEPT !.status = "expired"]
                    ELSE pending_approvals[i]]
        hit == SelectSeq(pending_approvals, Expiring)
        expired == [i \in 1..Len(hit) |-> [hit[i] EXCEPT !.status = "expired"]]
        entries == [i \in 1..Len(expired) |->
                      AuditLog(expired[i].thread_id, "system", "approval_expired",
                               [approval_id |-> expired[i].id,
                                approval_type |-> expired[i].approval_type,
                                environment |-> expired[i].environment,
                                expired_at |-> now])]
    IN  /\ pending_approvals' = swept
        /\ audit' = IF self_thread_repo THEN audit \o entries ELSE audit
        /\ ret' = [op |-> "check_expired_approvals", val |-> expired]
        /\ UNCHANGED <<tasks, store, now>>

\* HITLManager.get_approval_summary
get_approval_summary(thread_id) ==
    LET OfThread(a) == a.thread_id = thread_id
        thread_approvals == SelectSeq(pending_approvals, OfThread)
        Count(status) == LET Is(a) == a.status = status
                         IN  Len(SelectSeq(thread_approvals, Is))
    IN  /\ ret' = [op |-> "get_approval_summary", thread_id |-> thread_id,
                   val |-> [total_approvals |-> Len(thread_approvals),
                            pending |-> Count("pending"),
                            approved |-> Count("approved"),
                            rejected |-> Count("rejected"),
                            expired |-> Count("expired")]]
        /\ UNCHANGED <<tasks, store, audit, pending_approvals, now>>

-----------------------------------------------------------------------------
(* Bounds and inputs *)

\* Successful state transitions per behaviour (length of the audit table)
MaxAudit == 1

\* Calls of create_approval_request per behaviour
MaxCreates == 2

\* The clock runs up to MaxHours hours and MaxSubTicks ticks into an hour
MaxHours == 1

MaxSubTicks == 1

ThreadIds == {"t1", "t2"}

\* The thread that exists in the repository
StoredThreadId == "t1"

TicketInputs ==
    {<<>>,
     <<TicketRef("SN-1", "NSSR", "open")>>,
     <<TicketRef("GW-1", "GLAM", "open")>>,
     <<TicketRef("SN-1", "NSSR", "closed"), TicketRef("GW-2", "GWAM", "open")>>}

SecretInputs == {None, Some(SecretRef("pingsso/acme/client_secret"))}

Shots(labels) == [i \in 1..Len(labels) |-> ScreenshotRef(labels[i])]

ScreenshotInputs ==
    {Shots(<<>>),
     Shots(<<"consent">>),
     Shots(<<"login", "consent">>),
     Shots(<<"login", "landing", "token", "error">>),
     Shots(<<"login", "consent", "landing", "token">>),
     Shots(<<"token", "landing", "consent", "login", "login">>)}

EmailInputs == {<<>>, <<"m1@pingsso.agent">>}

EvidenceInputs ==
    [tickets : TicketInputs, secret : SecretInputs, screenshots : ScreenshotInputs,
     emails : EmailInputs, notes : {<<>>}]

\* Evidence that meets every requirement
FullEvidence ==
    [tickets |-> <<TicketRef("SN-1", "NSSR", "closed"), TicketRef("GW-2", "GWAM", "open")>>,
     secret |-> Some(SecretRef("pingsso/acme/client_secret")),
     screenshots |-> Shots(<<"login", "consent", "landing", "token">>),
     emails |-> <<"m1@pingsso.agent">>,
     notes |-> <<>>]

\* Evidence with a single NSSR ticket and nothing else
TicketOnlyEvidence == [Evidence EXCEPT !.tickets = <<TicketRef("SN-1", "NSSR", "open")>>]

\* Evidence supplied to update_env_state
UpdateEvidenceInputs == {Evidence, TicketOnlyEvidence, FullEvidence}

\* A thread whose environments are in the given states, as the last
\* successful update_env_state left it: an environment that has left
\* NotStarted carries the evidence of its last transition, and the derived
\* lists are those computed by that call.
ThreadInStates(thread_id, dev, staging, prod) ==
    LET EnvIn(e, state) ==
            [name |-> e, state |-> state,
             evidence |-> IF state = "NotStarted" THEN Evidence ELSE FullEvidence]
        t == [thread_id |-> thread_id,
              environments |-> [e \in EnvName |->
                                  IF e = "dev" THEN EnvIn(e, dev)
                                  ELSE IF e = "staging" THEN EnvIn(e, staging)
                                  ELSE EnvIn(e, prod)],
              blockers |-> <<>>,
              next_actions |-> <<>>]
    IN  IF dev = "NotStarted" /\ staging = "NotStarted" /\ prod = "NotStarted"
        THEN t
        ELSE [t EXCEPT !.blockers = AllBlockers(t), !.next_actions = AllNextActions(t)]

\* staging reaches Complete only after dev, prod only after staging; a
\* completed environment can afterwards only move to a special state.
CompletionOrdered(dev, staging, prod) ==
    /\ staging = "Complete" => dev \in {"Complete"} \cup SPECIAL_STATES
    /\ prod = "Complete" => /\ staging \in {"Complete"} \cup SPECIAL_STATES
                            /\ dev \in {"Complete"} \cup SPECIAL_STATES

\* Thread states the repository starts from
InitThreads ==
    {ThreadInStates(StoredThreadId, d, s, p) :
        <<d, s, p>> \in {x \in EnvState \X {"NotStarted", "Approved", "Complete", "Blocked"}
                                       \X {"NotStarted", "Approved"} :
                            CompletionOrdered(x[1], x[2], x[3])}}

\* The optional thread argument of validate_transition
ThreadInputs ==
    {None,
     Some(ClientThread(StoredThreadId)),
     Some(ThreadInStates(StoredThreadId, "Complete", "Approved", "NotStarted")),
     Some(ThreadInStates(StoredThreadId, "Complete", "Complete", "Approved"))}

ApproverInputs == {"ping-admin@company.com", "mallory@example.com"}

TimeoutInputs == {1}

\* Ids passed to approve_request and reject_request: those of the stored
\* requests and one that was never issued.
IdInputs == {pending_approvals[i].id : i \in 1..Len(pending_approvals)} \cup {<<"approval-unknown">>}

-----------------------------------------------------------------------------
(* Actions *)

NoCall == [op |-> "none"]

\* Result slot of a call that has not returned yet
Pending == [exc |-> "pending"]

\* The calls of can_transition: every pair of states
CanTransitionCalls ==
    {[op |-> "can_transition", current |-> current, target |-> target,
      done |-> FALSE, res |-> Pending] :
        current \in EnvState, target \in EnvState}

\* The calls of validate_transition: every pair of states, every
\* environment, every evidence input, with and without a thread
ValidateTransitionCalls ==
    {[op |-> "validate_transition", current |-> c[1], target |-> c[2],
      env |-> c[3], evidence |-> c[4], thread |-> c[5],
      done |-> FALSE, res |-> Pending] :
        c \in EnvState \X EnvState \X EnvName \X EvidenceInputs \X ThreadInputs}

\* The calls of get_current_environment: a thread with its environments in
\* every combination of states
GetCurrentEnvironmentCalls ==
    {[op |-> "get_current_environment",
      thread |-> ThreadInStates(StoredThreadId, c[1], c[2], c[3]),
      done |-> FALSE, res |-> Pending] :
        c \in EnvState \X EnvState \X EnvState}

\* The calls of calculate_progress: a thread with its environments in every
\* combination of states
CalculateProgressCalls ==
    {[op |-> "calculate_progress",
      thread |-> ThreadInStates(StoredThreadId, c[1], c[2], c[3]),
      done |-> FALSE, res |-> Pending] :
        c \in EnvState \X EnvState \X EnvState}

\* A call of StateMachine.can_transition returns
CallCanTransition ==
    /\ ret.op = "can_transition" /\ ~ret.done
    /\ ret' = [ret EXCEPT !.done = TRUE,
                          !.res = can_transition(ret.current, ret.target)]
    /\ UNCHANGED <<tasks, store, audit, pending_approvals, now>>

\* A call of StateMachine.validate_transition returns
CallValidateTransition ==
    /\ ret.op = "validate_transition" /\ ~ret.done
    /\ ret' = [ret EXCEPT !.done = TRUE,
                          !.res = validate_transition(ret.current, ret.target, ret.env,
                                                      ret.evidence, ret.thread)]
    /\ UNCHANGED <<tasks, store, audit, pending_approvals, now>>

\* A call of StateMachine.get_current_environment returns
CallGetCurrentEnvironment ==
    /\ ret.op = "get_current_environment" /\ ~ret.done
    /\ ret' = [ret EXCEPT !.done = TRUE, !.res = get_current_environment(ret.thread)]
    /\ UNCHANGED <<tasks, store, audit, pending_approvals, now>>

\* A call of StateMachine.calculate_progress returns
CallCalculateProgress ==
    /\ ret.op = "calculate_progress" /\ ~ret.done
    /\ ret' = [ret EXCEPT !.done = TRUE, !.res = calculate_progress(ret.thread)]
    /\ UNCHANGED <<tasks, store, audit, pending_approvals, now>>

\* The tool update_env_state
update_env_state(thread_id, env, new_state, evidence) ==
    LET r == UpdateEnvStateBody(store, audit, thread_id, env, new_state, evidence) IN
        /\ store' = r.store
        /\ audit' = r.audit
        /\ ret' = [op |-> "update_env_state", thread_id |-> thread_id, env |-> env,
                   new_state |-> new_state, evidence |-> evidence,
                   exc |-> r.exc, msg |-> r.msg, errors |-> r.errors]
        /\ UNCHANGED <<tasks, pending_approvals, now>>

\* A failed call leaves everything but ret as it was, so calls are explored
\* from the states that differ in more than ret: the initial ones and those
\* a successful call produced.
CallUpdateEnvState ==
    /\ Len(audit) < MaxAudit
    /\ ret.op = "update_env_state" => ret.exc = "none"
    /\ \E thread_id \in ThreadIds, env \in EnvName, new_state \in EnvState,
          evidence \in UpdateEvidenceInputs :
            update_env_state(thread_id, env, new_state, evidence)

NumCreates == Len(SelectSeq(audit, LAMBDA e : e.action = "approval_requested"))

CallCreateApprovalRequest ==
    /\ NumCreates < MaxCreates
    /\ \E thread_id \in ThreadIds, timeout_hours \in TimeoutInputs :
            create_approval_request(thread_id, "dev", "environment_progression",
                                    <<"ping-admin@company.com">>, timeout_hours)

CallApproveRequest ==
    \E id \in IdInputs, approver \in ApproverInputs : approve_request(id, approver)

CallRejectRequest ==
    \E id \in IdInputs, approver \in ApproverInputs :
        reject_request(id, approver, "not ready")

CallGetPendingApprovals ==
    \E thread_id \in {None} \cup {Some(t) : t \in ThreadIds} :
        get_pending_approvals(thread_id)

CallCheckExpiredApprovals == check_expired_approvals

CallGetApprovalSummary == \E thread_id \in ThreadIds : get_approval_summary(thread_id)

\* Time passes between operations: by one tick or by one hour.
AdvanceClock ==
    /\ \/ /\ now % HourTicks < MaxSubTicks
          /\ now' = now + 1
       \/ /\ now \div HourTicks < MaxHours
          /\ now' = now + HourTicks
    /\ ret' = NoCall
    /\ UNCHANGED <<tasks, store, audit, pending_approvals>>

-----------------------------------------------------------------------------
(* app/tools.py create_client_thread, app/hitl_tools.py, app/main.py *)

\* Audit entries per behaviour of the onboarding flow
MaxFlowAudit == 2

\* Background tasks queued at a time
MaxBackgroundTasks == 1

\* @requires_approval(..., timeout_hours=48) on advance_environment_with_approval
AdvanceTimeoutHours == 48

\* "await asyncio.sleep(2)" of the approval gate, in seconds
ApprovalGateDelay == 2

\* approvers=[...] of the same decorator
AdvanceApprovers == <<"ping-admin@company.com", "devops-team@company.com">>

\* The tool create_client_thread; thread_id is the uuid4 drawn by the
\* ClientThread constructor, different from every stored id.
create_client_thread(thread_id) ==
    /\ thread_id \notin DOMAIN store
    /\ IF ~ctx_thread_repo
       THEN /\ ret' = [op |-> "create_client_thread", thread_id |-> thread_id,
                       exc |-> "ValueError"]
            /\ UNCHANGED <<store, audit>>
       ELSE /\ store' = create_thread(store, ClientThread(thread_id))
            /\ audit' = add_audit_log(audit,
                            AuditLog(thread_id, ctx_user, "thread_created",
                                     [lanids |-> <<>>]))
            /\ ret' = [op |-> "create_client_thread", thread_id |-> thread_id,
                       exc |-> "none"]
    /\ UNCHANGED <<pending_approvals, now, tasks>>

\* The body of advance_environment_with_approval: as update_env_state, but
\* blockers and next_actions are not recomputed and the audit entry is a
\* state_transition_approved.
AdvanceBody(st, au, thread_id, env, target_state, evidence) ==
    IF ~ctx_thread_repo
    THEN UpdateFailed(st, au, "Thread repository not available", <<>>)
    ELSE
    LET loaded == get_thread(st, thread_id) IN
    IF loaded = None THEN UpdateFailed(st, au, "Thread not found", <<>>)
    ELSE
    LET thread == loaded[1] IN
    IF env \notin DOMAIN thread.environments
    THEN UpdateFailed(st, au, "Environment not found in thread", <<>>)
    ELSE
    LET env_obj == thread.environments[env]
        v == validate_transition(env_obj.state, target_state, env, evidence, Some(thread))
    IN
    IF v.exc # "none" THEN UpdateFailed(st, au, "list.index(x): x not in list", <<>>)
    ELSE IF ~v.ok THEN UpdateFailed(st, au, "Invalid state transition", v.errors)
    ELSE
    LET env_new == [env_obj EXCEPT !.state = target_state, !.evidence = evidence]
        thread1 == [thread EXCEPT !.environments[env] = env_new]
        saved == update_thread(st, thread1)
        entry == AuditLog(thread_id, ctx_user, "state_transition_approved",
                          [environment |-> env,
                           from_state |-> env_new.state,
                           to_state |-> target_state,
                           approval_required |-> TRUE])
    IN
    IF saved.exc # "none" THEN UpdateFailed(st, au, "Thread not found", <<>>)
    ELSE [exc |-> "none", msg |-> "", errors |-> <<>>,
          store |-> saved.store, audit |-> add_audit_log(au, entry)]

\* Wall-clock time from the creation of the gate's request to its
\* approve_request: "await asyncio.sleep(2)" returns after two seconds at
\* the earliest, and by then utcnow() may be past the request's expires_at
\* (the process was suspended, or the clock was set forward).
GateDelays(timeout_hours) ==
    {ApprovalGateDelay * TicksPerSecond, timeout_hours * HourTicks + 1}

\* The wrapper of requires_approval up to "return await func(*args,
\* **kwargs)", for a call that passes ctx positionally and the other
\* arguments by keyword.  The wrapper builds a HITLManager of its own,
\* creates the request in it, sleeps, and calls approve_request as the
\* first approver; approved is what approve_request returns, which the
\* wrapper does not read.
requires_approval(au, thread_id, env, approval_type, approvers, timeout_hours, elapsed) ==
    LET approval == ApprovalRequest(now, thread_id, env, approval_type,
                                    approvers, timeout_hours)
        requested == AuditLog(thread_id, "system", "approval_requested",
                              [approval_id |-> approval.id,
                               approval_type |-> approval_type,
                               environment |-> env,
                               approvers |-> approvers,
                               expires_at |-> approval.expires_at[1]])
        later == now + elapsed
        approved == approval.status = "pending" /\ ~Overdue(approval, later)
        granted == AuditLog(thread_id, approvers[1], "approval_granted",
                            [approval_id |-> approval.id,
                             approval_type |-> approval_type,
                             environment |-> env])
        au1 == IF self_thread_repo THEN add_audit_log(au, requested) ELSE au
        au2 == IF self_thread_repo /\ approved THEN add_audit_log(au1, granted) ELSE au1
    IN  [approved |-> approved, audit |-> au2, now |-> later]

\* advance_environment_with_approval behind its requires_approval gate
advance_environment_with_approval(thread_id, env, target_state, evidence, elapsed) ==
    LET gate == requires_approval(audit, thread_id, env, "environment_progression",
                                  AdvanceApprovers, AdvanceTimeoutHours, elapsed)
        r == AdvanceBody(store, gate.audit, thread_id, env, target_state, evidence)
    IN  /\ store' = r.store
        /\ audit' = r.audit
        /\ now' = gate.now
        /\ ret' = [op |-> "advance_environment_with_approval", thread_id |-> thread_id,
                   env |-> env, new_state |-> target_state, evidence |-> evidence,
                   approved |-> gate.approved,
                   exc |-> r.exc, msg |-> r.msg, errors |-> r.errors]
        /\ UNCHANGED <<pending_approvals, tasks>>

\* @requires_approval(..., timeout_hours=72) on deploy_to_production_with_approval
DeployTimeoutHours == 72

\* approvers=[...] of the same decorator
DeployApprovers ==
    <<"ping-admin@company.com", "security-team@company.com", "cto@company.com">>

\* "env_name != EnvName.prod and env.state != EnvState.complete" holds for
\* some item of thread.environments
DeployBlocked_StagingIgnored(thread) ==
    \E e \in DOMAIN thread.environments \ {"staging"} :
        e # "prod" /\ thread.environments[e].state # "Complete"

DeployBlocked(thread) ==
    \E e \in DOMAIN thread.environments :
        e # "prod" /\ thread.environments[e].state # "Complete"

\* The body of deploy_to_production_with_approval, run at time t
DeployBody(st, au, t, thread_id, client) ==
    IF ~ctx_thread_repo
    THEN [exc |-> "ValueError", msg |-> "Thread repository not available",
          val |-> None, audit |-> au]
    ELSE
    LET loaded == get_thread(st, thread_id) IN
    IF loaded = None
    THEN [exc |-> "ValueError", msg |-> "Thread not found", val |-> None, audit |-> au]
    ELSE
    LET thread == loaded[1] IN
    IF DeployBlocked(thread)
    THEN [exc |-> "ValueError",
          msg |-> "Environment must be complete before production deployment",
          val |-> None, audit |-> au]
    ELSE
    LET deployment_record ==
            [client |-> client,
             thread_id |-> thread_id,
             deployed_at |-> t,
             deployed_by |-> ctx_user,
             environments |->
                 [e \in DOMAIN thread.environments |->
                     [state |-> thread.environments[e].state,
                      evidence_count |->
                          Len(thread.environments[e].evidence.tickets)
                              + Len(thread.environments[e].evidence.screenshots)]]]
        audit_log == AuditLog(thread_id, ctx_user, "production_deployment_approved",
                              deployment_record)
    IN  [exc |-> "none", msg |-> "", val |-> Some(deployment_record),
         audit |-> add_audit_log(au, audit_log)]

\* deploy_to_production_with_approval behind its requires_approval gate;
\* the call has no keyword env, so the request is made for EnvName.dev.
deploy_to_production_with_approval(thread_id, client, elapsed) ==
    LET gate == requires_approval(audit, thread_id, "dev", "production_deployment",
                                  DeployApprovers, DeployTimeoutHours, elapsed)
        r == DeployBody(store, gate.audit, gate.now, thread_id, client)
    IN  /\ audit' = r.audit
        /\ now' = gate.now
        /\ ret' = [op |-> "deploy_to_production_with_approval", thread_id |-> thread_id,
                   approved |-> gate.approved,
                   exc |-> r.exc, msg |-> r.msg, val |-> r.val]
        /\ UNCHANGED <<store, pending_approvals, tasks>>

\* @requires_approval(..., timeout_hours=24) on create_nssr_ticket_with_approval
TicketTimeoutHours == 24

\* approvers=[...] of the same decorator
TicketApprovers == <<"ping-admin@company.com", "security-team@company.com">>

\* create_nssr_ticket_with_approval behind its requires_approval gate.  The
\* call has no keyword thread_id, so the request is made for the thread
\* 'unknown'; ticket_id is the id drawn with secrets.token_hex.
create_nssr_ticket_with_approval(client, env, ticket_id, elapsed) ==
    LET gate == requires_approval(audit, "unknown", env, "ticket_creation",
                                  TicketApprovers, TicketTimeoutHours, elapsed)
    IN  /\ audit' = gate.audit
        /\ now' = gate.now
        /\ ret' = [op |-> "create_nssr_ticket_with_approval", thread_id |-> "unknown",
                   approved |-> gate.approved, exc |-> "none",
                   val |-> TicketRef(ticket_id, "NSSR", "open")]
        /\ UNCHANGED <<store, pending_approvals, tasks>>

\* HITLManager(ctx.thread_repo): "self.pending_approvals = {}"
HITLManager == <<>>

\* timeout_hours=4 of create_emergency_approval
EmergencyTimeoutHours == 4

\* The tool create_emergency_approval: the request is created in a
\* HITLManager built for this call, and its id is returned.
create_emergency_approval(thread_id, environment, emergency_approvers) ==
    LET hitl_manager == HITLManager
        approval == ApprovalRequest(now, thread_id, environment, "environment_progression",
                                    emergency_approvers, EmergencyTimeoutHours)
        stored == SetItem(hitl_manager, approval.id, approval)
        requested == AuditLog(thread_id, "system", "approval_requested",
                              [approval_id |-> approval.id,
                               approval_type |-> approval.approval_type,
                               environment |-> environment,
                               approvers |-> emergency_approvers,
                               expires_at |-> approval.expires_at[1]])
    IN  /\ audit' = IF self_thread_repo THEN add_audit_log(audit, requested) ELSE audit
        /\ ret' = [op |-> "create_emergency_approval", thread_id |-> thread_id,
                   exc |-> "none", val |-> stored[Len(stored)].id]
        /\ UNCHANGED <<store, pending_approvals, now, tasks>>

\* What get_pending_approvals returns for the requests d of a manager at
\* time t
PendingOf(d, thread_id, t) ==
    LET InFilter(a) == InThreadFilter(a, thread_id)
        IsPending(a) == a.status = "pending"
        swept == [i \in 1..Len(d) |->
                    IF InFilter(d[i]) /\ Overdue(d[i], t)
                    THEN [d[i] EXCEPT !.status = "expired"]
                    ELSE d[i]]
    IN  SelectSeq(SelectSeq(swept, InFilter), IsPending)

\* What get_approval_summary returns for the requests d of a manager
SummaryOf(d, thread_id) ==
    LET OfThread(a) == a.thread_id = thread_id
        thread_approvals == SelectSeq(d, OfThread)
        Count(status) == LET Is(a) == a.status = status
                         IN  Len(SelectSeq(thread_approvals, Is))
    IN  [total_approvals |-> Len(thread_approvals),
         pending |-> Count("pending"),
         approved |-> Count("approved"),
         rejected |-> Count("rejected"),
         expired |-> Count("expired")]

\* The tool get_approval_status: the pending requests and the summary of a
\* HITLManager built for this call.
get_approval_status(thread_id) ==
    LET hitl_manager == HITLManager
        listed == PendingOf(hitl_manager, Some(thread_id), now)
    IN  /\ ret' = [op |-> "get_approval_status", thread_id |-> thread_id,
                   exc |-> "none",
                   summary |-> SummaryOf(hitl_manager, thread_id),
                   pending_approvals |->
                       [i \in 1..Len(listed) |->
                           [id |-> listed[i].id, status |-> listed[i].status]]]
        /\ UNCHANGED <<store, audit, pending_approvals, now, tasks>>

\* "if ticket.id == update.ticket_id" holds for some ticket of the thread
HasTicket(thread, ticket_id) ==
    \E e \in DOMAIN thread.environments :
        \E i \in 1..Len(thread.environments[e].evidence.tickets) :
            thread.environments[e].evidence.tickets[i].id = ticket_id

WithTicketStatus_EveryTicket(thread, ticket_id, status) ==
    [thread EXCEPT !.environments =
        [e \in DOMAIN thread.environments |->
            [thread.environments[e] EXCEPT !.evidence.tickets =
                [i \in 1..Len(thread.environments[e].evidence.tickets) |->
                    [thread.environments[e].evidence.tickets[i] EXCEPT !.status = status]]]]]

\* The thread after "ticket.status = update.status" on each such ticket
WithTicketStatus(thread, ticket_id, status) ==
    [thread EXCEPT !.environments =
        [e \in DOMAIN thread.environments |->
            [thread.environments[e] EXCEPT !.evidence.tickets =
                [i \in 1..Len(thread.environments[e].evidence.tickets) |->
                    IF thread.environments[e].evidence.tickets[i].id = ticket_id
                    THEN [thread.environments[e].evidence.tickets[i] EXCEPT !.status = status]
                    ELSE thread.environments[e].evidence.tickets[i]]]]]

\* POST /webhooks/ticketing: every listed thread holding the ticket gets the
\* new status on it and is persisted.  The background task
\* check_state_advancement only reads and logs.
handle_ticket_update(ticket_id, status) ==
    LET Loaded(t) == get_thread(store, t)[1]
        updated_threads == {t \in DOMAIN store : HasTicket(Loaded(t), ticket_id)}
    IN  /\ store' = [t \in DOMAIN store |->
                        IF t \in updated_threads
                        THEN update_thread(store,
                                 WithTicketStatus(Loaded(t), ticket_id, status)).store[t]
                        ELSE store[t]]
        /\ ret' = [op |-> "handle_ticket_update", ticket_id |-> ticket_id,
                   status |-> status, updated_threads |-> updated_threads]
        /\ UNCHANGED <<audit, pending_approvals, now, tasks>>

\* POST /webhooks/email: for an approval email the first environment in
\* SignoffSent gets the background task advance_to_approved; the email
\* appended to the loaded copy's evidence is not persisted here.  The 404
\* raised for an unknown thread is caught by the handler's own
\* "except Exception" and answered as a 500.
handle_email_update(thread_id, message_id, is_approval) ==
    LET loaded == get_thread(store, thread_id) IN
    IF loaded = None THEN
        /\ ret' = [op |-> "handle_email_update", thread_id |-> thread_id,
                   message_id |-> message_id, is_approval |-> is_approval,
                   exc |-> "HTTPException", status_code |-> 500]
        /\ UNCHANGED <<store, audit, pending_approvals, now, tasks>>
    ELSE
    LET Waiting(e) == /\ e \in DOMAIN loaded[1].environments
                      /\ loaded[1].environments[e].state = "SignoffSent"
        waiting == SelectSeq(EnvOrder, Waiting)
    IN  /\ tasks' = IF is_approval /\ waiting # <<>>
                    THEN Append(tasks, [op |-> "advance_to_approved",
                                        thread_id |-> thread_id,
                                        env_name |-> Head(waiting),
                                        approval_email_id |-> message_id])
                    ELSE tasks
        /\ ret' = [op |-> "handle_email_update", thread_id |-> thread_id,
                   message_id |-> message_id, is_approval |-> is_approval,
                   exc |-> "none", status_code |-> 200]
        /\ UNCHANGED <<store, audit, pending_approvals, now>>

advance_to_approved_DropsEmail ==
    LET f == Head(tasks)
        loaded == get_thread(store, f.thread_id)
        env == loaded[1].environments[f.env_name]
        evidence == env.evidence
        r == UpdateEnvStateBody(store, audit, f.thread_id, f.env_name, "Approved", evidence)
    IN  /\ tasks # <<>> /\ f.op = "advance_to_approved"
        /\ tasks' = Tail(tasks)
        /\ IF \/ loaded = None
              \/ f.env_name \notin DOMAIN loaded[1].environments
              \/ env.state # "SignoffSent"
           THEN /\ ret' = [op |-> "advance_to_approved", thread_id |-> f.thread_id,
                           env |-> f.env_name, exc |-> "none", advanced |-> FALSE]
                /\ UNCHANGED <<store, audit>>
           ELSE /\ store' = r.store
                /\ audit' = IF r.exc = "none"
                            THEN [r.audit EXCEPT ![Len(r.audit)].actor = "system"]
                            ELSE r.audit
                /\ ret' = [op |-> "advance_to_approved", thread_id |-> f.thread_id,
                           env |-> f.env_name, exc |-> r.exc,
                           advanced |-> (r.exc = "none")]
        /\ UNCHANGED <<pending_approvals, now>>

\* The background task advance_to_approved at the head of the queue: it
\* reloads the thread, and if the environment is still in SignoffSent calls
\* update_env_state as user "system" with the stored evidence plus the
\* email; every exception is logged and swallowed.
advance_to_approved ==
    LET f == Head(tasks)
        loaded == get_thread(store, f.thread_id)
        env == loaded[1].environments[f.env_name]
        evidence == [env.evidence EXCEPT !.emails = Append(@, f.approval_email_id)]
        r == UpdateEnvStateBody(store, audit, f.thread_id, f.env_name, "Approved", evidence)
    IN  /\ tasks # <<>> /\ f.op = "advance_to_approved"
        /\ tasks' = Tail(tasks)
        /\ IF \/ loaded = None
              \/ f.env_name \notin DOMAIN loaded[1].environments
              \/ env.state # "SignoffSent"
           THEN /\ ret' = [op |-> "advance_to_approved", thread_id |-> f.thread_id,
                           env |-> f.env_name, exc |-> "none", advanced |-> FALSE]
                /\ UNCHANGED <<store, audit>>
           ELSE /\ store' = r.store
                /\ audit' = IF r.exc = "none"
                            THEN [r.audit EXCEPT ![Len(r.audit)].actor = "system"]
                            ELSE r.audit
                /\ ret' = [op |-> "advance_to_approved", thread_id |-> f.thread_id,
                           env |-> f.env_name, exc |-> r.exc,
                           advanced |-> (r.exc = "none")]
        /\ UNCHANGED <<pending_approvals, now>>

\* Arguments of the calls of the onboarding flow
FlowStateInputs == {"FormsRaised", "Complete", "Blocked"}

FlowTicketIds == {"GW-2", "SN-404"}

FlowTicketStatuses == {"resolved"}

CallCreateClientThread ==
    /\ Len(audit) < MaxFlowAudit
    /\ \E thread_id \in ThreadIds : create_client_thread(thread_id)

FlowUpdateEnvState ==
    /\ Len(audit) < MaxFlowAudit
    /\ \E thread_id \in ThreadIds, env \in EnvName, new_state \in FlowStateInputs :
            update_env_state(thread_id, env, new_state, FullEvidence)

CallAdvanceEnvironmentWithApproval ==
    /\ Len(audit) < MaxFlowAudit
    /\ \E thread_id \in ThreadIds, env \in EnvName, target_state \in FlowStateInputs,
          elapsed \in GateDelays(AdvanceTimeoutHours) :
            advance_environment_with_approval(thread_id, env, target_state,
                                              FullEvidence, elapsed)

CallHandleTicketUpdate ==
    \E ticket_id \in FlowTicketIds, status \in FlowTicketStatuses :
        handle_ticket_update(ticket_id, status)

CallHandleEmailUpdate ==
    /\ Len(tasks) < MaxBackgroundTasks
    /\ \E thread_id \in ThreadIds, is_approval \in BOOLEAN :
            handle_email_update(thread_id, "m2@pingsso.agent", is_approval)

CallDeployToProductionWithApproval ==
    /\ Len(audit) < MaxFlowAudit
    /\ \E thread_id \in ThreadIds, elapsed \in GateDelays(DeployTimeoutHours) :
            deploy_to_production_with_approval(thread_id, "acme", elapsed)

\* Ticket ids drawn by create_nssr_ticket_with_approval
NewTicketIds == {"SN-0A1B2C3D"}

CallCreateNssrTicketWithApproval ==
    /\ Len(audit) < MaxFlowAudit
    /\ \E env \in EnvName, ticket_id \in NewTicketIds,
          elapsed \in GateDelays(TicketTimeoutHours) :
            create_nssr_ticket_with_approval("acme", env, ticket_id, elapsed)

CallCreateEmergencyApproval ==
    /\ Len(audit) < MaxFlowAudit
    /\ \E thread_id \in ThreadIds, environment \in EnvName :
            create_emergency_approval(thread_id, environment, <<"cto@company.com">>)

CallGetApprovalStatus == \E thread_id \in ThreadIds : get_approval_status(thread_id)

RunAdvanceToApproved == advance_to_approved

-----------------------------------------------------------------------------
(* Overlapping calls *)

\* Coroutines started per behaviour
MaxUpdateTasks == 2

MaxApprovalTasks == 2

\* Arguments of the overlapping update_env_state calls
TaskStateInputs == {"FormsRaised", "Blocked"}

TaskEvidenceInputs == {TicketOnlyEvidence, FullEvidence}

\* update_env_state up to the return of "await get_thread": the coroutine
\* now holds its own copy of the thread.
update_env_state_load(thread_id, env, new_state, evidence) ==
    /\ tasks' = Append(tasks,
                   [op |-> "update_env_state", thread_id |-> thread_id, env |-> env,
                    new_state |-> new_state, evidence |-> evidence,
                    pc |-> "loaded", thread |-> get_thread(store, thread_id),
                    exc |-> "none", entry |-> None])
    /\ UNCHANGED <<store, audit, pending_approvals, now, ret>>

\* update_env_state from the return of get_thread to the commit of
\* "await update_thread": the checks, the mutation and the recomputation
\* work on the coroutine's copy, which then overwrites the stored thread.
update_env_state_persist(i) ==
    LET f == tasks[i]
        copy == IF f.thread = None THEN <<>> ELSE [t \in {f.thread_id} |-> f.thread[1]]
        r == UpdateEnvStateBody(copy, <<>>, f.thread_id, f.env, f.new_state, f.evidence)
        saved == update_thread(store, r.store[f.thread_id])
    IN  /\ f.op = "update_env_state" /\ f.pc = "loaded"
        /\ IF r.exc # "none"
           THEN /\ tasks' = [tasks EXCEPT ![i].pc = "done", ![i].exc = r.exc]
                /\ store' = store
           ELSE IF saved.exc # "none"
           THEN /\ tasks' = [tasks EXCEPT ![i].pc = "done", ![i].exc = saved.exc]
                /\ store' = store
           ELSE /\ tasks' = [tasks EXCEPT ![i].pc = "persisted",
                                          ![i].entry = Some(r.audit[1])]
                /\ store' = saved.store
        /\ UNCHANGED <<audit, pending_approvals, now, ret>>

\* update_env_state from the return of update_thread to "return True":
\* "await add_audit_log".
update_env_state_audit(i) ==
    LET f == tasks[i] IN
        /\ f.op = "update_env_state" /\ f.pc = "persisted"
        /\ audit' = add_audit_log(audit, f.entry[1])
        /\ tasks' = [tasks EXCEPT ![i].pc = "done"]
        /\ UNCHANGED <<store, pending_approvals, now, ret>>

update_env_state_persist_fails_AuditedFirst(i) ==
    LET f == tasks[i]
        copy == IF f.thread = None THEN <<>> ELSE [t \in {f.thread_id} |-> f.thread[1]]
        r == UpdateEnvStateBody(copy, <<>>, f.thread_id, f.env, f.new_state, f.evidence)
    IN  /\ f.op = "update_env_state" /\ f.pc = "loaded"
        /\ r.exc = "none"
        /\ tasks' = [tasks EXCEPT ![i].pc = "done", ![i].exc = "SQLAlchemyError"]
        /\ audit' = add_audit_log(audit, r.audit[1])
        /\ UNCHANGED <<store, pending_approvals, now, ret>>

\* update_env_state when the commit of "await update_thread" fails: the
\* session is closed without a write and the exception leaves the tool
\* before "await add_audit_log".
update_env_state_persist_fails(i) ==
    LET f == tasks[i]
        copy == IF f.thread = None THEN <<>> ELSE [t \in {f.thread_id} |-> f.thread[1]]
        r == UpdateEnvStateBody(copy, <<>>, f.thread_id, f.env, f.new_state, f.evidence)
    IN  /\ f.op = "update_env_state" /\ f.pc = "loaded"
        /\ r.exc = "none"
        /\ tasks' = [tasks EXCEPT ![i].pc = "done", ![i].exc = "SQLAlchemyError"]
        /\ UNCHANGED <<store, audit, pending_approvals, now, ret>>

\* update_env_state when the commit of "await add_audit_log" fails: the
\* thread stays persisted, no row is added and the exception leaves the tool.
update_env_state_audit_fails(i) ==
    LET f == tasks[i] IN
        /\ f.op = "update_env_state" /\ f.pc = "persisted"
        /\ tasks' = [tasks EXCEPT ![i].pc = "done", ![i].exc = "SQLAlchemyError"]
        /\ UNCHANGED <<store, audit, pending_approvals, now, ret>>

\* Frame of an approve_request or reject_request that returned at once
Returned(op, approval_id, approver, val) ==
    [op |-> op, approval_id |-> approval_id, approver |-> approver,
     pc |-> "done", val |-> val, entry |-> None]

\* Frame of an approve_request or reject_request suspended at
\* "await self.thread_repo.add_audit_log(audit_log)"
Suspended(op, approval_id, approver, audit_log) ==
    [op |-> op, approval_id |-> approval_id, approver |-> approver,
     pc |-> "add_audit_log", val |-> TRUE, entry |-> Some(audit_log)]

approve_request_begin_LeavesPending(approval_id, approver) ==
    IF ~HasKey(pending_approvals, approval_id) THEN
        /\ tasks' = Append(tasks, Returned("approve_request", approval_id, approver, FALSE))
        /\ UNCHANGED <<store, audit, pending_approvals, now, ret>>
    ELSE
    LET pos == KeyPos(pending_approvals, approval_id)
        approval == pending_approvals[pos]
        audit_log == AuditLog(approval.thread_id, approver, "approval_granted",
                              [approval_id |-> approval_id,
                               approval_type |-> approval.approval_type,
                               environment |-> approval.environment])
    IN
    IF approval.status # "pending" THEN
        /\ tasks' = Append(tasks, Returned("approve_request", approval_id, approver, FALSE))
        /\ UNCHANGED <<store, audit, pending_approvals, now, ret>>
    ELSE IF Overdue(approval, now) THEN
        /\ pending_approvals' = [pending_approvals EXCEPT ![pos].status = "expired"]
        /\ tasks' = Append(tasks, Returned("approve_request", approval_id, approver, FALSE))
        /\ UNCHANGED <<store, audit, now, ret>>
    ELSE
        /\ tasks' = Append(tasks, Suspended("approve_request", approval_id, approver, audit_log))
        /\ UNCHANGED <<store, audit, pending_approvals, now, ret>>

\* HITLManager.approve_request up to its only await: the lookup, the status
\* and expiry checks and the update of the request run without suspension.
approve_request_begin(approval_id, approver) ==
    IF ~HasKey(pending_approvals, approval_id) THEN
        /\ tasks' = Append(tasks, Returned("approve_request", approval_id, approver, FALSE))
        /\ UNCHANGED <<store, audit, pending_approvals, now, ret>>
    ELSE
    LET pos == KeyPos(pending_approvals, approval_id)
        approval == pending_approvals[pos]
        audit_log == AuditLog(approval.thread_id, approver, "approval_granted",
                              [approval_id |-> approval_id,
                               approval_type |-> approval.approval_type,
                               environment |-> approval.environment])
    IN
    IF approval.status # "pending" THEN
        /\ tasks' = Append(tasks, Returned("approve_request", approval_id, approver, FALSE))
        /\ UNCHANGED <<store, audit, pending_approvals, now, ret>>
    ELSE IF Overdue(approval, now) THEN
        /\ pending_approvals' = [pending_approvals EXCEPT ![pos].status = "expired"]
        /\ tasks' = Append(tasks, Returned("approve_request", approval_id, approver, FALSE))
        /\ UNCHANGED <<store, audit, now, ret>>
    ELSE
        /\ pending_approvals' =
               [pending_approvals EXCEPT ![pos].status = "approved",
                                         ![pos].approved_by = Some(approver),
                                         ![pos].approved_at = Some(now)]
        /\ tasks' = IF self_thread_repo
                    THEN Append(tasks, Suspended("approve_request", approval_id,
                                                 approver, audit_log))
                    ELSE Append(tasks, Returned("approve_request", approval_id,
                                                approver, TRUE))
        /\ UNCHANGED <<store, audit, now, ret>>

\* HITLManager.reject_request up to its only await
reject_request_begin(approval_id, approver, reason) ==
    IF ~HasKey(pending_approvals, approval_id) THEN
        /\ tasks' = Append(tasks, Returned("reject_request", approval_id, approver, FALSE))
        /\ UNCHANGED <<store, audit, pending_approvals, now, ret>>
    ELSE
    LET pos == KeyPos(pending_approvals, approval_id)
        approval == pending_approvals[pos]
        audit_log == AuditLog(approval.thread_id, approver, "approval_rejected",
                              [approval_id |-> approval_id,
                               approval_type |-> approval.approval_type,
                               environment |-> approval.environment,
                               reason |-> reason])
    IN
    IF approval.status # "pending" THEN
        /\ tasks' = Append(tasks, Returned("reject_request", approval_id, approver, FALSE))
        /\ UNCHANGED <<store, audit, pending_approvals, now, ret>>
    ELSE
        /\ pending_approvals' =
               [pending_approvals EXCEPT ![pos].status = "rejected",
                                         ![pos].approved_by = Some(approver),
                                         ![pos].approved_at = Some(now),
                                         ![pos].rejection_reason = Some(reason)]
        /\ tasks' = IF self_thread_repo
                    THEN Append(tasks, Suspended("reject_request", approval_id,
                                                 approver, audit_log))
                    ELSE Append(tasks, Returned("reject_request", approval_id,
                                                approver, TRUE))
        /\ UNCHANGED <<store, audit, now, ret>>

\* approve_request or reject_request from the return of add_audit_log to
\* "return True"
approval_audit_resume(i) ==
    LET f == tasks[i] IN
        /\ f.op \in {"approve_request", "reject_request"} /\ f.pc = "add_audit_log"
        /\ audit' = add_audit_log(audit, f.entry[1])
        /\ tasks' = [tasks EXCEPT ![i].pc = "done"]
        /\ UNCHANGED <<store, pending_approvals, now, ret>>

\* The background task advance_to_approved up to the return of its
\* "await thread_repo.get_thread": the coroutine holds its own copy.
advance_to_approved_load(i) ==
    LET f == tasks[i] IN
        /\ f.op = "advance_to_approved" /\ "pc" \notin DOMAIN f
        /\ tasks' = [tasks EXCEPT ![i] =
                        [op |-> "advance_to_approved", thread_id |-> f.thread_id,
                         env_name |-> f.env_name,
                         approval_email_id |-> f.approval_email_id,
                         pc |-> "loaded", thread |-> get_thread(store, f.thread_id),
                         new_state |-> "Approved", evidence |-> Evidence, exc |-> "none", entry |-> None]]
        /\ UNCHANGED <<store, audit, pending_approvals, now, ret>>

\* advance_to_approved from there to the return of the get_thread that
\* update_env_state awaits: it returns unless its copy has the environment
\* in SignoffSent, else it appends the email to the copy's evidence and
\* calls update_env_state, which loads the thread again.
advance_to_approved_call(i) ==
    LET f == tasks[i]
        env == f.thread[1].environments[f.env_name]
    IN  /\ f.op = "advance_to_approved" /\ "pc" \in DOMAIN f /\ f.pc = "loaded"
        /\ IF \/ f.thread = None
              \/ f.env_name \notin DOMAIN f.thread[1].environments
              \/ env.state # "SignoffSent"
           THEN tasks' = [tasks EXCEPT ![i].pc = "done"]
           ELSE tasks' = [tasks EXCEPT
                            ![i].pc = "called",
                            ![i].new_state = "Approved",
                            ![i].evidence = [env.evidence EXCEPT
                                                !.emails = Append(@, f.approval_email_id)],
                            ![i].thread = get_thread(store, f.thread_id)]
        /\ UNCHANGED <<store, audit, pending_approvals, now, ret>>

\* The update_env_state it called, as user "system", from the return of
\* get_thread to the commit of update_thread; every exception is logged and
\* swallowed by advance_to_approved.
advance_to_approved_persist(i) ==
    LET f == tasks[i]
        copy == IF f.thread = None THEN <<>> ELSE [t \in {f.thread_id} |-> f.thread[1]]
        r == UpdateEnvStateBody(copy, <<>>, f.thread_id, f.env_name, f.new_state, f.evidence)
        saved == update_thread(store, r.store[f.thread_id])
    IN  /\ f.op = "advance_to_approved" /\ "pc" \in DOMAIN f /\ f.pc = "called"
        /\ IF r.exc # "none"
           THEN /\ tasks' = [tasks EXCEPT ![i].pc = "done", ![i].exc = r.exc]
                /\ store' = store
           ELSE IF saved.exc # "none"
           THEN /\ tasks' = [tasks EXCEPT ![i].pc = "done", ![i].exc = saved.exc]
                /\ store' = store
           ELSE /\ tasks' = [tasks EXCEPT ![i].pc = "persisted",
                                          ![i].entry = Some([r.audit[1] EXCEPT
                                                                !.actor = "system"])]
                /\ store' = saved.store
        /\ UNCHANGED <<audit, pending_approvals, now, ret>>

\* ... and from there to its "return True": "await add_audit_log"
advance_to_approved_audit(i) ==
    LET f == tasks[i] IN
        /\ f.op = "advance_to_approved" /\ "pc" \in DOMAIN f /\ f.pc = "persisted"
        /\ audit' = add_audit_log(audit, f.entry[1])
        /\ tasks' = [tasks EXCEPT ![i].pc = "done"]
        /\ UNCHANGED <<store, pending_approvals, now, ret>>

\* Approval emails delivered per behaviour
MaxEmailTasks == 3

EmailMessageIds == {"m2@pingsso.agent", "m3@pingsso.agent"}

DeliverEmail ==
    /\ Len(tasks) < MaxEmailTasks
    /\ \E message_id \in EmailMessageIds, is_approval \in BOOLEAN :
            handle_email_update(StoredThreadId, message_id, is_approval)

LoadAdvanceToApproved == \E i \in 1..Len(tasks) : advance_to_approved_load(i)

CallAdvanceToApproved == \E i \in 1..Len(tasks) : advance_to_approved_call(i)

PersistAdvanceToApproved == \E i \in 1..Len(tasks) : advance_to_approved_persist(i)

AuditAdvanceToApproved == \E i \in 1..Len(tasks) : advance_to_approved_audit(i)

BeginUpdateEnvState ==
    /\ Len(tasks) < MaxUpdateTasks
    /\ \E thread_id \in ThreadIds, env \in EnvName, new_state \in TaskStateInputs,
          evidence \in TaskEvidenceInputs :
            update_env_state_load(thread_id, env, new_state, evidence)

PersistUpdateEnvState == \E i \in 1..Len(tasks) : update_env_state_persist(i)

AuditUpdateEnvState == \E i \in 1..Len(tasks) : update_env_state_audit(i)

FailPersistUpdateEnvState == \E i \in 1..Len(tasks) : update_env_state_persist_fails(i)

FailAuditUpdateEnvState == \E i \in 1..Len(tasks) : update_env_state_audit_fails(i)

BeginApproveRequest ==
    /\ Len(tasks) < MaxApprovalTasks
    /\ \E id \in IdInputs, approver \in ApproverInputs : approve_request_begin(id, approver)

BeginRejectRequest ==
    /\ Len(tasks) < MaxApprovalTasks
    /\ \E id \in IdInputs, approver \in ApproverInputs :
            reject_request_begin(id, approver, "not ready")

ResumeApprovalAudit == \E i \in 1..Len(tasks) : approval_audit_resume(i)

-----------------------------------------------------------------------------
(* Specifications *)

\* A call of a state machine function is about to be made.
InitSM ==
    /\ store = [t \in {StoredThreadId} |-> ClientThread(t)]
    /\ audit = <<>>
    /\ pending_approvals = <<>>
    /\ now = 0
    /\ tasks = <<>>
    /\ ret \in CanTransitionCalls \cup ValidateTransitionCalls
                \cup GetCurrentEnvironmentCalls \cup CalculateProgressCalls

\* State after construction: one thread in the repository, no approvals.
InitFresh ==
    /\ store = [t \in {StoredThreadId} |-> ClientThread(t)]
    /\ audit = <<>>
    /\ pending_approvals = <<>>
    /\ now = 0
    /\ tasks = <<>>
    /\ ret = NoCall

\* The repository holds a thread somewhere along its onboarding.
InitThread ==
    /\ store \in {[t \in {StoredThreadId} |-> th] : th \in InitThreads}
    /\ audit = <<>>
    /\ pending_approvals = <<>>
    /\ now = 0
    /\ tasks = <<>>
    /\ ret = NoCall

Init == InitThread

NextSM ==
    \/ CallCanTransition
    \/ CallValidateTransition
    \/ CallGetCurrentEnvironment
    \/ CallCalculateProgress

NextThread == CallUpdateEnvState

NextHITL ==
    \/ CallCreateApprovalRequest
    \/ CallApproveRequest
    \/ CallRejectRequest
    \/ CallGetPendingApprovals
    \/ CallCheckExpiredApprovals
    \/ CallGetApprovalSummary
    \/ AdvanceClock

\* The pure state machine functions applied to every input
SpecSM == InitSM /\ [][NextSM]_vars

\* update_env_state over the repository
SpecThread == InitThread /\ [][NextThread]_vars

\* The approval manager
SpecHITL == InitFresh /\ [][NextHITL]_vars

\* Threads the overlapping update_env_state calls start from
TaskInitThreads ==
    {ClientThread(StoredThreadId),
     ThreadInStates(StoredThreadId, "Complete", "NotStarted", "NotStarted")}

InitTasks ==
    /\ store \in {[t \in {StoredThreadId} |-> th] : th \in TaskInitThreads}
    /\ audit = <<>>
    /\ pending_approvals = <<>>
    /\ now = 0
    /\ tasks = <<>>
    /\ ret = NoCall

NextUpdateTasks == BeginUpdateEnvState \/ PersistUpdateEnvState \/ AuditUpdateEnvState

NextApprovalTasks ==
    \/ CallCreateApprovalRequest
    \/ BeginApproveRequest
    \/ BeginRejectRequest
    \/ ResumeApprovalAudit
    \/ AdvanceClock

\* Overlapping update_env_state calls
SpecUpdateTasks == InitTasks /\ [][NextUpdateTasks]_vars

NextUpdateFaults ==
    \/ BeginUpdateEnvState
    \/ PersistUpdateEnvState
    \/ AuditUpdateEnvState
    \/ FailPersistUpdateEnvState
    \/ FailAuditUpdateEnvState

\* Overlapping update_env_state calls over a store and an audit sink whose
\* commits may fail
SpecUpdateFaults == InitTasks /\ [][NextUpdateFaults]_vars

\* Threads with an environment waiting for its sign-off
EmailInitThreads ==
    {ThreadInStates(StoredThreadId, "SignoffSent", "NotStarted", "NotStarted"),
     ThreadInStates(StoredThreadId, "SignoffSent", "SignoffSent", "NotStarted"),
     ThreadInStates(StoredThreadId, "Complete", "SignoffSent", "NotStarted")}

InitEmailTasks ==
    /\ store \in {[t \in {StoredThreadId} |-> th] : th \in EmailInitThreads}
    /\ audit = <<>>
    /\ pending_approvals = <<>>
    /\ now = 0
    /\ tasks = <<>>
    /\ ret = NoCall

NextEmailTasks ==
    \/ DeliverEmail
    \/ LoadAdvanceToApproved
    \/ CallAdvanceToApproved
    \/ PersistAdvanceToApproved
    \/ AuditAdvanceToApproved

\* Approval emails whose background tasks overlap
SpecEmailTasks == InitEmailTasks /\ [][NextEmailTasks]_vars

\* Overlapping approve_request and reject_request calls on one manager
SpecApprovalTasks == InitFresh /\ [][NextApprovalTasks]_vars

\* Threads the onboarding flow starts from
FlowInitThreads ==
    {ClientThread(StoredThreadId),
     ThreadInStates(StoredThreadId, "SignoffSent", "NotStarted", "NotStarted"),
     ThreadInStates(StoredThreadId, "Complete", "Approved", "NotStarted")}

InitFlow ==
    /\ store \in {[t \in {StoredThreadId} |-> th] : th \in FlowInitThreads}
    /\ audit = <<>>
    /\ pending_approvals = <<>>
    /\ now = 0
    /\ tasks = <<>>
    /\ ret = NoCall

NextFlow ==
    \/ CallCreateClientThread
    \/ FlowUpdateEnvState
    \/ CallAdvanceEnvironmentWithApproval
    \/ CallHandleTicketUpdate
    \/ CallHandleEmailUpdate
    \/ RunAdvanceToApproved

\* The onboarding flow: thread creation, the two transition tools and the
\* webhooks with their background task
SpecFlow == InitFlow /\ [][NextFlow]_vars

\* Threads the gated tools start from
GateInitThreads ==
    {ClientThread(StoredThreadId),
     ThreadInStates(StoredThreadId, "Complete", "Approved", "NotStarted"),
     ThreadInStates(StoredThreadId, "Blocked", "Complete", "NotStarted"),
     ThreadInStates(StoredThreadId, "Complete", "Complete", "NotStarted")}

InitGate ==
    /\ store \in {[t \in {StoredThreadId} |-> th] : th \in GateInitThreads}
    /\ audit = <<>>
    /\ pending_approvals = <<>>
    /\ now = 0
    /\ tasks = <<>>
    /\ ret = NoCall

NextGate ==
    \/ CallAdvanceEnvironmentWithApproval
    \/ CallDeployToProductionWithApproval
    \/ CallCreateNssrTicketWithApproval
    \/ CallCreateEmergencyApproval
    \/ CallGetApprovalStatus

\* The tools of app/hitl_tools.py
SpecGate == InitGate /\ [][NextGate]_vars

\* A run of update_env_state calls on the stored thread
EnvScript(env) ==
    [i \in 1..(Len(STATE_ORDER) - 1) |-> [env |-> env, new_state |-> STATE_ORDER[i + 1]]]

\* The calls that take env from NotStarted to Approved
UpToApproved(env) == SubSeq(EnvScript(env), 1, Len(STATE_ORDER) - 2)

\* Five ways of onboarding a client: one environment after the other;
\* staging and prod prepared up to Approved before dev is started; prod
\* blocked between the onboarding of dev and that of staging; dev abandoned
\* when staging is prepared up to Approved; and dev
\* blocked after its credentials were issued, then sent back for changes
OnboardingScripts ==
    {EnvScript("dev") \o EnvScript("staging") \o EnvScript("prod"),
     UpToApproved("staging") \o UpToApproved("prod") \o EnvScript("dev")
        \o <<[env |-> "staging", new_state |-> "Complete"],
             [env |-> "prod", new_state |-> "Complete"]>>,
     EnvScript("dev") \o <<[env |-> "prod", new_state |-> "Blocked"]>> \o EnvScript("staging"),
     UpToApproved("staging") \o <<[env |-> "dev", new_state |-> "Abandoned"]>>,
     SubSeq(EnvScript("dev"), 1, 2) \o <<[env |-> "dev", new_state |-> "Blocked"],
                                         [env |-> "dev", new_state |-> "ChangesRequested"]>>}

\* The audit log after the calls of script, each with full evidence
RECURSIVE Replay(_, _, _)
Replay(st, au, script) ==
    IF script = <<>> THEN au
    ELSE LET r == UpdateEnvStateBody(st, au, StoredThreadId, Head(script).env,
                                     Head(script).new_state, FullEvidence)
         IN  Replay(r.store, r.audit, Tail(script))

ScriptAudits(scripts) ==
    {Replay([t \in {StoredThreadId} |-> ClientThread(t)], <<>>, script) :
        script \in scripts}

OnboardingAudits == ScriptAudits(OnboardingScripts)

\* The first of the scripts alone
SequentialAudits == ScriptAudits({EnvScript("dev") \o EnvScript("staging") \o EnvScript("prod")})

\* Length of the longest common prefix of two logs
CommonPrefix(a, b) ==
    LET Same(k) == \A i \in 1..k : a[i] = b[i]
        lens == {k \in 0..(IF Len(a) < Len(b) THEN Len(a) ELSE Len(b)) : Same(k)}
    IN  CHOOSE k \in lens : \A j \in lens : j <= k

\* Audit entries written after the run left the scripts
Detours(au, script_audits) ==
    LET on == {CommonPrefix(au, script_audit) : script_audit \in script_audits}
    IN  Len(au) - (CHOOSE k \in on : \A j \in on : j <= k)

\* Transitions explored off the onboarding scripts
MaxDetours == 1

RunEvidenceInputs == {FullEvidence, Evidence}

\* A failed update_env_state leaves store and audit as they were: the run
\* is continued from the state before it
Settled == ret.op = "update_env_state" => ret.exc = "none"

\* update_env_state on the stored thread, from a fresh thread onwards
RunUpdateEnvState ==
    /\ Settled
    /\ \E env \in EnvName, new_state \in EnvState, evidence \in RunEvidenceInputs :
            update_env_state(StoredThreadId, env, new_state, evidence)
    /\ Detours(audit', OnboardingAudits) <= MaxDetours

NextRun == RunUpdateEnvState

\* The life of one thread from its creation under update_env_state
SpecRun == InitFresh /\ [][NextRun]_vars

HooksUpdateEnvState ==
    /\ Settled
    /\ \E env \in EnvName, new_state \in EnvState, evidence \in RunEvidenceInputs :
            update_env_state(StoredThreadId, env, new_state, evidence)
    /\ Detours(audit', SequentialAudits) <= MaxDetours

HooksHandleTicketUpdate ==
    /\ Settled
    /\ CallHandleTicketUpdate

HooksHandleEmailUpdate ==
    /\ Settled
    /\ Len(tasks) < MaxBackgroundTasks
    /\ \E is_approval \in BOOLEAN :
            handle_email_update(StoredThreadId, "m2@pingsso.agent", is_approval)

HooksAdvanceToApproved ==
    /\ Settled
    /\ advance_to_approved
    /\ Detours(audit', SequentialAudits) <= MaxDetours

NextHooks ==
    \/ HooksUpdateEnvState
    \/ HooksHandleTicketUpdate
    \/ HooksHandleEmailUpdate
    \/ HooksAdvanceToApproved

\* The life of one thread from its creation under update_env_state and the
\* webhooks with their background task
SpecHooks == InitFresh /\ [][NextHooks]_vars

Next ==
    NextSM \/ NextThread \/ NextHITL \/ NextUpdateTasks \/ NextApprovalTasks \/ NextFlow \/ NextGate \/ NextRun \/ NextHooks
        \/ NextUpdateFaults \/ NextEmailTasks

Spec == Init /\ [][Next]_vars

-----------------------------------------------------------------------------
(* Properties *)

\* The ordered progression, written out as its immediate-successor pairs
SuccessorPairs ==
    {<<"NotStarted", "FormsRaised">>, <<"FormsRaised", "CredsIssued">>,
     <<"CredsIssued", "AccessProvisioned">>, <<"AccessProvisioned", "Validated">>,
     <<"Validated", "SignoffSent">>, <<"SignoffSent", "Approved">>,
     <<"Approved", "Complete">>}

OrderedStates ==
    {"NotStarted", "FormsRaised", "CredsIssued", "AccessProvisioned",
     "Validated", "SignoffSent", "Approved", "Complete"}

SpecialTargets == {"Blocked", "ChangesRequested", "Abandoned"}

CanTransitionReturned == ret.op = "can_transition" /\ ret.done

ValidateReturned == ret.op = "validate_transition" /\ ret.done

\* C1: for ordered-progression states current and target, can_transition
\* returns true exactly when target is the immediate successor of current;
\* skipping, staying, moving backward and leaving Complete are rejected.
C1_SingleStepOnly ==
    (CanTransitionReturned /\ ret.current \in OrderedStates /\ ret.target \in OrderedStates)
        => /\ ret.res.exc = "none"
           /\ ret.res.val <=> (<<ret.current, ret.target>> \in SuccessorPairs)

\* C1 witness: a skip by one state was asked for and rejected
C1_Witness ==
    /\ CanTransitionReturned
    /\ ret.current = "NotStarted" /\ ret.target = "CredsIssued"
    /\ ret.res = [exc |-> "none", val |-> FALSE]

\* C2: from each of the eleven states, a move to Blocked, ChangesRequested
\* or Abandoned is legal, and validate_transition accepts it with an empty
\* error list for every environment and every evidence.
C2_SpecialAlwaysLegal ==
    /\ (CanTransitionReturned /\ ret.target \in SpecialTargets)
           => ret.res = [exc |-> "none", val |-> TRUE]
    /\ (ValidateReturned /\ ret.target \in SpecialTargets)
           => ret.res = [exc |-> "none", ok |-> TRUE, errors |-> <<>>]

\* C2 witness: Abandoned entered from ChangesRequested with empty evidence
C2_Witness ==
    /\ ValidateReturned
    /\ ret.current = "ChangesRequested" /\ ret.target = "Abandoned"
    /\ ret.evidence = Evidence
    /\ ret.res.ok

\* State of environment e of the stored thread, before and after a step
StateOf(e) == store[StoredThreadId].environments[e].state

StateOfNext(e) == store'[StoredThreadId].environments[e].state

PreviousEnv(e) == IF e = "staging" THEN "dev" ELSE "staging"

C4_FailureChangesNothing ==
    [][ /\ (ret'.op = "update_env_state" /\ ret'.exc # "none")
              => store' = store /\ audit' = audit
        /\ (ret'.op = "update_env_state" /\ (store' # store \/ audit' # audit))
              => /\ ret'.thread_id \in DOMAIN store
                 /\ validate_transition(
                        store[ret'.thread_id].environments[ret'.env].state,
                        ret'.new_state, ret'.env, ret'.evidence,
                        Some(store[ret'.thread_id])).ok
                 /\ Len(audit') = Len(audit) + 1
      ]_vars

\* C4 witness: a transition was refused for missing evidence, nothing logged
C4_Witness ==
    /\ ret.op = "update_env_state" /\ ret.exc = "ValueError"
    /\ ret.errors = <<Err("FormsRaised requires at least one ticket", <<>>)>>
    /\ StateOf(ret.env) = "NotStarted"
    /\ audit = <<>>

\* A step of the approval manager other than create_approval_request keeps
\* every stored request at its position.
SameRequests == ret'.op # "create_approval_request"

\* C5: once a request is approved, rejected or expired, no later operation
\* changes its status.
C5_TerminalStatusIsFinal ==
    [][ SameRequests =>
          \A i \in 1..Len(pending_approvals) :
              pending_approvals[i].status # "pending"
                  => pending_approvals'[i].status = pending_approvals[i].status
      ]_vars

\* The request an approve_request or reject_request call names, before
\* and after the call
Named == pending_approvals[KeyPos(pending_approvals, ret'.approval_id)]

NamedNext == pending_approvals'[KeyPos(pending_approvals, ret'.approval_id)]

\* Every stored request except the named one is untouched by the step.
OthersUntouched ==
    /\ Len(pending_approvals') = Len(pending_approvals)
    /\ \A i \in 1..Len(pending_approvals) :
          i # KeyPos(pending_approvals, ret'.approval_id)
              => pending_approvals'[i] = pending_approvals[i]

\* C6: approve_request returns false and changes nothing for an unknown id
\* or a request that is not pending; for a pending request past expires_at
\* it returns false and sets the status to expired; otherwise it returns
\* true, sets status approved, records approver and time, and appends one
\* approval_granted audit entry.
C6_ApproveOutcomes ==
    [][ ret'.op = "approve_request" =>
          IF ~HasKey(pending_approvals, ret'.approval_id)
          THEN /\ ret'.val = FALSE
               /\ pending_approvals' = pending_approvals /\ audit' = audit
          ELSE IF Named.status # "pending"
          THEN /\ ret'.val = FALSE
               /\ pending_approvals' = pending_approvals /\ audit' = audit
          ELSE IF now > Named.expires_at[1]
          THEN /\ ret'.val = FALSE
               /\ NamedNext = [Named EXCEPT !.status = "expired"]
               /\ OthersUntouched /\ audit' = audit
          ELSE /\ ret'.val = TRUE
               /\ NamedNext = [Named EXCEPT !.status = "approved",
                                            !.approved_by = <<ret'.approver>>,
                                            !.approved_at = <<now>>]
               /\ OthersUntouched
               /\ Len(audit') = Len(audit) + 1
               /\ SubSeq(audit', 1, Len(audit)) = audit
               /\ audit'[Len(audit')].action = "approval_granted"
               /\ audit'[Len(audit')].actor = ret'.approver
               /\ audit'[Len(audit')].details.approval_id = ret'.approval_id
      ]_vars

\* C6 witness: a late approve_request returned false and expired the request
C6_Witness ==
    /\ ret.op = "approve_request" /\ ret.val = FALSE
    /\ \E i \in 1..Len(pending_approvals) :
          /\ pending_approvals[i].id = ret.approval_id
          /\ pending_approvals[i].status = "expired"
          /\ pending_approvals[i].approved_by = None
    /\ \A j \in 1..Len(audit) : audit[j].action = "approval_requested"

\* C7: reject_request returns false without setting status rejected when
\* the id is unknown, the request is not pending, or the request is pending
\* but past its expires_at.
C7_RejectChecksExpiry ==
    [][ ret'.op = "reject_request" =>
          IF ~HasKey(pending_approvals, ret'.approval_id)
          THEN ret'.val = FALSE
          ELSE (Named.status # "pending" \/ now > Named.expires_at[1])
                  => /\ ret'.val = FALSE
                     /\ NamedNext.status = "rejected" => Named.status = "rejected"
      ]_vars

\* Number of approval_granted audit entries that name the id
Granted(au, id) ==
    Cardinality({j \in 1..Len(au) :
                    au[j].action = "approval_granted" /\ au[j].details.approval_id = id})

\* C8: approve_request on a request that an earlier call approved returns
\* false, leaves status, approved_by and approved_at as the first call set
\* them and appends no audit entry; the first call added exactly one
\* approval_granted entry, the only one of a request whose id is its own.
C8_SecondApproveIsNoOp ==
    [][ ret'.op = "approve_request" =>
          /\ (HasKey(pending_approvals, ret'.approval_id) /\ Named.status = "approved")
                => /\ ret'.val = FALSE
                   /\ NamedNext = Named
                   /\ audit' = audit
          /\ ret'.val = TRUE
                => /\ Granted(audit', ret'.approval_id)
                        = Granted(audit, ret'.approval_id) + 1
                   /\ NumCreates = Len(pending_approvals)
                         => Granted(audit', ret'.approval_id) = 1
      ]_vars

\* C8 witness: a second approve_request, by another approver, returned
\* false; the request still carries the first approver and has one entry
C8_Witness ==
    /\ ret.op = "approve_request" /\ ret.val = FALSE
    /\ \E i \in 1..Len(pending_approvals) :
          /\ pending_approvals[i].id = ret.approval_id
          /\ pending_approvals[i].status = "approved"
          /\ pending_approvals[i].approved_by # <<ret.approver>>
    /\ Granted(audit, ret.approval_id) = 1

\* C9: get_pending_approvals expires every pending request that is overdue
\* and passes the thread filter, and returns only requests that are
\* pending, not overdue, stored, and of the given thread when one is given.
C9_ListPendingSelfCorrects ==
    [][ ret'.op = "get_pending_approvals" =>
          /\ Len(pending_approvals') = Len(pending_approvals)
          /\ \A i \in 1..Len(pending_approvals) :
                (/\ pending_approvals[i].status = "pending"
                 /\ now > pending_approvals[i].expires_at[1]
                 /\ (ret'.thread_id = <<>>
                        \/ ret'.thread_id = <<pending_approvals[i].thread_id>>))
                    => pending_approvals'[i].status = "expired"
          /\ \A k \in 1..Len(ret'.val) :
                /\ ret'.val[k].status = "pending"
                /\ ~(now > ret'.val[k].expires_at[1])
                /\ ret'.thread_id # <<>> => ret'.val[k].thread_id = ret'.thread_id[1]
                /\ \E i \in 1..Len(pending_approvals') :
                      pending_approvals'[i] = ret'.val[k]
      ]_vars

\* C9 witness: with no sweep run, a listing found the only request overdue,
\* expired it and returned nothing
C9_Witness ==
    /\ ret.op = "get_pending_approvals" /\ ret.val = <<>>
    /\ Len(pending_approvals) = 1
    /\ pending_approvals[1].status = "expired"
    /\ pending_approvals[1].approved_by = None
    /\ \A j \in 1..Len(audit) : audit[j].action = "approval_requested"

\* C10: validate_transition returns a structured result for every input
\* and never raises; for current in ChangesRequested, Blocked, Abandoned
\* and an ordered target it is valid or has one Invalid transition error.
C10_ValidateNeverRaises ==
    ValidateReturned =>
        /\ ret.res.exc = "none"
        /\ (ret.current \in SpecialTargets /\ ret.target \in OrderedStates)
              => \/ ret.res.ok
                 \/ /\ Len(ret.res.errors) = 1
                    /\ ret.res.errors[1].msg = "Invalid transition"

\* C11: an environment in ChangesRequested is not stuck: some state T of the
\* ordered progression has can_transition(ChangesRequested, T) true, and
\* update_env_state with that target succeeds for some evidence.
C11_ChangesRequestedNotDeadEnd ==
    \A t \in DOMAIN store : \A e \in EnvName :
        store[t].environments[e].state = "ChangesRequested" =>
            \E T \in OrderedStates :
                /\ can_transition("ChangesRequested", T) = [exc |-> "none", val |-> TRUE]
                /\ \E evidence \in UpdateEvidenceInputs :
                       UpdateEnvStateBody(store, audit, t, e, T, evidence).exc = "none"

\* Targets whose rule asks for one item of evidence
SingleItemTargets == {"FormsRaised", "CredsIssued", "SignoffSent", "Approved"}

\* The item of evidence a target asks for is present
RequiredItemPresent(target, evidence) ==
    CASE target = "FormsRaised" -> Len(evidence.tickets) >= 1
      [] target = "CredsIssued" -> evidence.secret # <<>>
      [] target = "SignoffSent" -> Len(evidence.emails) >= 1
      [] target = "Approved"    -> Len(evidence.emails) >= 1

\* The error that names the missing item
RequirementError(target) ==
    CASE target = "FormsRaised" -> "FormsRaised requires at least one ticket"
      [] target = "CredsIssued" -> "CredsIssued requires client secret evidence"
      [] target = "SignoffSent" -> "SignoffSent requires email evidence"
      [] target = "Approved"    -> "Approved requires approval email evidence"

\* C12: for a structurally legal transition into FormsRaised, CredsIssued,
\* SignoffSent or Approved, validate_transition is valid exactly when the
\* target's item of evidence is present (a ticket, a secret reference, an
\* email, an email); when it is missing the result is invalid with the one
\* error that names the requirement.
C12_SingleItemEvidenceGate ==
    (/\ ValidateReturned
     /\ <<ret.current, ret.target>> \in SuccessorPairs
     /\ ret.target \in SingleItemTargets)
        => /\ ret.res.exc = "none"
           /\ ret.res.ok <=> RequiredItemPresent(ret.target, ret.evidence)
           /\ RequiredItemPresent(ret.target, ret.evidence) => ret.res.errors = <<>>
           /\ ~RequiredItemPresent(ret.target, ret.evidence)
                 => /\ Len(ret.res.errors) = 1
                    /\ ret.res.errors[1].msg = RequirementError(ret.target)

\* C12 witness: SignoffSent -> Approved was refused for want of an email
\* although tickets, secret and screenshots were supplied
C12_Witness ==
    /\ ValidateReturned
    /\ ret.current = "SignoffSent" /\ ret.target = "Approved"
    /\ ret.evidence.emails = <<>> /\ ret.evidence.secret # <<>>
    /\ Len(ret.evidence.tickets) = 2 /\ Len(ret.evidence.screenshots) = 4
    /\ ~ret.res.ok
    /\ ret.res.errors = <<Err("Approved requires approval email evidence", <<>>)>>

\* C13: validate_transition(CredsIssued, AccessProvisioned, env, evidence)
\* is valid for prod whatever the evidence, and for dev and staging exactly
\* when the evidence holds a ticket of kind GLAM or GWAM.
C13_AccessProvisionedGate ==
    (ValidateReturned /\ ret.current = "CredsIssued" /\ ret.target = "AccessProvisioned")
        => /\ ret.res.exc = "none"
           /\ ret.env = "prod" => ret.res.ok /\ ret.res.errors = <<>>
           /\ ret.env \in {"dev", "staging"}
                 => (ret.res.ok <=> \E i \in 1..Len(ret.evidence.tickets) :
                                        ret.evidence.tickets[i].kind \in {"GLAM", "GWAM"})

\* C13 witness: prod was accepted with empty evidence
C13_Witness ==
    /\ ValidateReturned
    /\ ret.current = "CredsIssued" /\ ret.target = "AccessProvisioned"
    /\ ret.env = "prod" /\ ret.evidence = Evidence
    /\ ret.res.ok

\* The four screenshots a validation needs
RequiredShots == {"login", "consent", "landing", "token"}

\* Labels of the screenshots in an evidence set
LabelsOf(evidence) == {evidence.screenshots[i].label : i \in 1..Len(evidence.screenshots)}

\* C14: validate_transition(AccessProvisioned, Validated, env, evidence) is
\* valid exactly when the screenshot labels include login, consent, landing
\* and token (extras and duplicates allowed); when invalid, its single error
\* lists the missing required labels, each once, and nothing else.
C14_ScreenshotGate ==
    (ValidateReturned /\ ret.current = "AccessProvisioned" /\ ret.target = "Validated")
        => /\ ret.res.exc = "none"
           /\ ret.res.ok <=> RequiredShots \subseteq LabelsOf(ret.evidence)
           /\ ret.res.ok => ret.res.errors = <<>>
           /\ ~ret.res.ok
                 => /\ Len(ret.res.errors) = 1
                    /\ ret.res.errors[1].msg = "Validation requires screenshots"
                    /\ Range(ret.res.errors[1].args) = RequiredShots \ LabelsOf(ret.evidence)
                    /\ Len(ret.res.errors[1].args)
                           = Cardinality(RequiredShots \ LabelsOf(ret.evidence))

\* C14 witness: login, landing, token and an extra screenshot were supplied
\* and the error lists consent alone
C14_Witness ==
    /\ ValidateReturned
    /\ ret.current = "AccessProvisioned" /\ ret.target = "Validated"
    /\ LabelsOf(ret.evidence) = {"login", "landing", "token", "error"}
    /\ ~ret.res.ok
    /\ ret.res.errors = <<Err("Validation requires screenshots", <<"consent">>)>>

\* A step in which update_env_state returned successfully
UpdateSucceeded == ret'.op = "update_env_state" /\ ret'.exc = "none"

\* C15: after a successful update_env_state the persisted environment has
\* the new state and exactly the supplied evidence, and the other two
\* environments of the thread, and every other thread, are as before.
C15_EvidenceReplacedWholesale ==
    [][ UpdateSucceeded =>
          /\ ret'.thread_id \in DOMAIN store /\ DOMAIN store' = DOMAIN store
          /\ store'[ret'.thread_id].environments[ret'.env].state = ret'.new_state
          /\ store'[ret'.thread_id].environments[ret'.env].evidence = ret'.evidence
          /\ \A e \in EnvName \ {ret'.env} :
                /\ store'[ret'.thread_id].environments[e].state
                       = store[ret'.thread_id].environments[e].state
                /\ store'[ret'.thread_id].environments[e].evidence
                       = store[ret'.thread_id].environments[e].evidence
          /\ \A t \in DOMAIN store \ {ret'.thread_id} : store'[t] = store[t]
      ]_vars

\* C15 witness: dev, which had completed with full evidence (staging is
\* Complete), was moved to Blocked with empty evidence, and its stored
\* evidence is now empty while staging still has its own
C15_Witness ==
    /\ ret.op = "update_env_state" /\ ret.exc = "none"
    /\ ret.env = "dev" /\ ret.new_state = "Blocked" /\ ret.evidence = Evidence
    /\ store[StoredThreadId].environments["dev"].state = "Blocked"
    /\ store[StoredThreadId].environments["dev"].evidence = Evidence
    /\ store[StoredThreadId].environments["staging"].state = "Complete"
    /\ store[StoredThreadId].environments["staging"].evidence = FullEvidence

\* C16: the state_transition audit entry of a successful update_env_state
\* has from_state equal to the environment's state before the call and
\* to_state equal to the new state.
C16_AuditRecordsFromState ==
    [][ UpdateSucceeded =>
          /\ Len(audit') = Len(audit) + 1
          /\ audit'[Len(audit')].action = "state_transition"
          /\ audit'[Len(audit')].details.environment = ret'.env
          /\ audit'[Len(audit')].details.to_state = ret'.new_state
          /\ audit'[Len(audit')].details.from_state
                 = store[ret'.thread_id].environments[ret'.env].state
      ]_vars

\* Overlapping update_env_state calls other than call i that target the
\* same environment of the same thread
Rivals(i) ==
    {j \in 1..Len(tasks) \ {i} :
        /\ tasks[j].op = "update_env_state"
        /\ tasks[j].thread_id = tasks[i].thread_id
        /\ tasks[j].env = tasks[i].env}

\* C17: overlapping update_env_state calls on one thread never lose an
\* update: the persisted thread reflects every call that returned success;
\* in particular a call that succeeded on an environment no other call
\* targeted finds its new state and its evidence in the persisted thread.
C17_NoLostUpdate ==
    \A i \in 1..Len(tasks) :
        (/\ tasks[i].op = "update_env_state"
         /\ tasks[i].pc = "done" /\ tasks[i].exc = "none"
         /\ Rivals(i) = {})
            => /\ store[tasks[i].thread_id].environments[tasks[i].env].state
                      = tasks[i].new_state
               /\ store[tasks[i].thread_id].environments[tasks[i].env].evidence
                      = tasks[i].evidence

\* Calls of approve_request and reject_request on request id
CallsOn(id) ==
    {i \in 1..Len(tasks) :
        /\ tasks[i].op \in {"approve_request", "reject_request"}
        /\ tasks[i].approval_id = id}

\* Those that returned true, or are suspended on their way to return true
Winners(id) == {i \in CallsOn(id) : tasks[i].val}

\* The approval_granted and approval_rejected audit entries of request id
Decisions(id) ==
    SelectSeq(audit, LAMBDA e : /\ e.action \in {"approval_granted", "approval_rejected"}
                                /\ e.details.approval_id = id)

\* Every request was created under an id of its own
NoIdReuse == NumCreates = Len(pending_approvals)

\* C18: when approve_request and reject_request calls overlap on one
\* request, interleaved at their await points, at most one of them returns
\* true, and exactly one if the request was pending and unexpired; the
\* request's status and approved_by are those of that call, and one
\* approval_granted or approval_rejected audit entry is written for it.
C18_OneDecisionPerRequest ==
    NoIdReuse =>
        \A k \in 1..Len(pending_approvals) :
            LET a == pending_approvals[k] IN
                /\ Cardinality(Winners(a.id)) <= 1
                /\ CallsOn(a.id) # {} => a.status # "pending"
                /\ a.status \in {"approved", "rejected"} <=> Cardinality(Winners(a.id)) = 1
                /\ \A i \in Winners(a.id) :
                      /\ a.status = IF tasks[i].op = "approve_request"
                                    THEN "approved" ELSE "rejected"
                      /\ a.approved_by = <<tasks[i].approver>>
                /\ Len(Decisions(a.id))
                       = Cardinality({i \in Winners(a.id) : tasks[i].pc = "done"})
                /\ Len(Decisions(a.id)) <= 1

\* C18 witness: reject_request ran while approve_request on the same
\* request was suspended at its await, and returned false
C18_Witness ==
    /\ Len(tasks) = 2 /\ Len(pending_approvals) = 1
    /\ tasks[1].op = "approve_request" /\ tasks[1].pc = "add_audit_log" /\ tasks[1].val
    /\ tasks[2].op = "reject_request" /\ tasks[2].pc = "done" /\ ~tasks[2].val
    /\ tasks[1].approval_id = pending_approvals[1].id
    /\ tasks[2].approval_id = pending_approvals[1].id
    /\ pending_approvals[1].status = "approved"
    /\ pending_approvals[1].approved_by = <<tasks[1].approver>>
    /\ tasks[1].approver # tasks[2].approver

\* C19: every persisted thread, whether just created by create_client_thread
\* or reached through update_env_state, the gated advance and the webhooks,
\* holds exactly one environment for each of dev, staging and prod, and a
\* thread just created has all three in NotStarted.
C19_ThreeEnvironments ==
    /\ \A t \in DOMAIN store :
          /\ DOMAIN store[t].environments = {"dev", "staging", "prod"}
          /\ \A e \in DOMAIN store[t].environments : store[t].environments[e].name = e
    /\ (ret.op = "create_client_thread" /\ ret.exc = "none")
          => /\ ret.thread_id \in DOMAIN store
             /\ \A e \in {"dev", "staging", "prod"} :
                   store[ret.thread_id].environments[e].state = "NotStarted"

\* C19 witness: a thread created by create_client_thread was then advanced
\* through the approval gate and still has its three environments
C19_Witness ==
    /\ "t2" \in DOMAIN store
    /\ Len(audit) >= 4 /\ audit[1].action = "thread_created" /\ audit[1].thread_id = "t2"
    /\ ret.op = "advance_environment_with_approval" /\ ret.thread_id = "t2"
    /\ ret.exc = "none"
    /\ store["t2"].environments["dev"].state = "FormsRaised"
    /\ Cardinality(DOMAIN store["t2"].environments) = 3

\* States in which an environment needs no further work
TerminalStates == {"Complete", "Abandoned"}

\* State of environment e of the thread passed to get_current_environment
ArgState(e) == ret.thread.environments[e].state

\* C20: get_current_environment returns the first of dev, staging, prod
\* whose state is neither Complete nor Abandoned, and none exactly when all
\* three are Complete or Abandoned: dev for a fresh thread, staging once dev
\* is Complete, prod once dev and staging are Complete, none once all are.
C20_CurrentEnvironment ==
    (ret.op = "get_current_environment" /\ ret.done)
        => /\ ret.res = <<>> <=> \A e \in EnvName : ArgState(e) \in TerminalStates
           /\ ArgState("dev") \notin TerminalStates => ret.res = <<"dev">>
           /\ (ArgState("dev") \in TerminalStates /\ ArgState("staging") \notin TerminalStates)
                 => ret.res = <<"staging">>
           /\ (/\ ArgState("dev") \in TerminalStates
               /\ ArgState("staging") \in TerminalStates
               /\ ArgState("prod") \notin TerminalStates)
                 => ret.res = <<"prod">>
           /\ ret.thread = ClientThread(StoredThreadId) => ret.res = <<"dev">>

\* C20 witness: dev was abandoned, staging is complete, so prod is current
C20_Witness ==
    /\ ret.op = "get_current_environment" /\ ret.done
    /\ ArgState("dev") = "Abandoned" /\ ArgState("staging") = "Complete"
    /\ ArgState("prod") = "SignoffSent"
    /\ ret.res = <<"prod">>

\* calculate_progress has returned
ProgressReturned == ret.op = "calculate_progress" /\ ret.done

\* C21: calculate_progress returns exactly 0.0 for a thread whose three
\* environments are all NotStarted.
C21_FreshThreadHasNoProgress ==
    (ProgressReturned /\ \A e \in EnvName : ArgState(e) = "NotStarted")
        => FracEq(ret.res, Fraction(0, 1))

\* C22: with dev Complete and staging and prod NotStarted, calculate_progress
\* is strictly greater than 0.3 and strictly less than 0.4.
C22_DevCompleteIsAboutOneThird ==
    (/\ ProgressReturned
     /\ ArgState("dev") = "Complete"
     /\ ArgState("staging") = "NotStarted"
     /\ ArgState("prod") = "NotStarted")
        => /\ FracLess(Fraction(3, 10), ret.res)
           /\ FracLess(ret.res, Fraction(4, 10))

\* The score the progress formula gives each state
StatedScore(state) ==
    CASE state = "NotStarted" -> 1
      [] state = "FormsRaised" -> 2
      [] state = "CredsIssued" -> 3
      [] state = "AccessProvisioned" -> 4
      [] state = "Validated" -> 5
      [] state = "SignoffSent" -> 6
      [] state = "Approved" -> 7
      [] state = "Complete" -> 8
      [] OTHER -> 0

NewEntries == SubSeq(audit', Len(audit) + 1, Len(audit'))

\* The step is a call of a tool behind a requires_approval gate
GatedCall(op) == ret'.op = op /\ Len(audit') > Len(audit)

\* C24: deploy_to_production_with_approval creates the deployment record
\* and its production_deployment_approved audit entry only if dev and
\* staging are both Complete in the stored thread; otherwise the call fails
\* and creates neither.
C24_DeployNeedsNonProdComplete ==
    [][GatedCall("deploy_to_production_with_approval")
        => LET ready == /\ ret'.thread_id \in DOMAIN store
                        /\ store[ret'.thread_id].environments["dev"].state = "Complete"
                        /\ store[ret'.thread_id].environments["staging"].state = "Complete"
               recorded == \E i \in 1..Len(NewEntries) :
                              NewEntries[i].action = "production_deployment_approved"
           IN  /\ (recorded \/ ret'.val # None) => ready
               /\ ~ready => ret'.exc # "none" /\ ret'.val = None /\ ~recorded]_vars

\* C24 witness: a deployment was recorded
C24_Witness ==
    /\ ret.op = "deploy_to_production_with_approval" /\ ret.exc = "none"
    /\ ret.val # None
    /\ audit[Len(audit)].action = "production_deployment_approved"
    /\ store[ret.thread_id].environments["staging"].state = "Complete"

\* C25: a function wrapped by requires_approval runs its body only if the
\* request created for the call is approved: when approve_request returned
\* false the gated operation does not run and persists nothing.
C25_BodyRunsOnlyWhenApproved ==
    [][(/\ \/ GatedCall("create_nssr_ticket_with_approval")
           \/ GatedCall("advance_environment_with_approval")
           \/ GatedCall("deploy_to_production_with_approval")
        /\ ~ret'.approved)
        => /\ store' = store
           /\ \A i \in 1..Len(NewEntries) : NewEntries[i].action = "approval_requested"]_vars

\* The request is pending and past expires_at at the time of the call
Due(a) == a.status = "pending" /\ Overdue(a, now)

\* Positions of the stored requests that are due
DuePositions == {i \in 1..Len(pending_approvals) : Due(pending_approvals[i])}

\* C26: check_expired_approvals sets to expired exactly the requests that
\* are pending and past expires_at at the time of the call, returns exactly
\* those, writes one approval_expired audit entry for each, leaves every
\* other request unchanged, and leaves no request both pending and overdue.
C26_SweepExpiresExactlyTheDue ==
    [][ret'.op = "check_expired_approvals"
        => /\ Len(pending_approvals') = Len(pending_approvals)
           /\ \A i \in 1..Len(pending_approvals) :
                 pending_approvals'[i] =
                     IF i \in DuePositions
                     THEN [pending_approvals[i] EXCEPT !.status = "expired"]
                     ELSE pending_approvals[i]
           /\ Len(ret'.val) = Cardinality(DuePositions)
           /\ Range(ret'.val) = {pending_approvals'[i] : i \in DuePositions}
           /\ Len(NewEntries) = Cardinality(DuePositions)
           /\ \A j \in 1..Len(NewEntries) : NewEntries[j].action = "approval_expired"
           /\ \A i \in DuePositions :
                 Cardinality({j \in 1..Len(NewEntries) :
                                 NewEntries[j].details.approval_id = pending_approvals[i].id}) = 1
           /\ \A i \in 1..Len(pending_approvals') :
                 ~(/\ pending_approvals'[i].status = "pending"
                   /\ Overdue(pending_approvals'[i], now'))]_vars

\* C26 witness: the sweep expired one request and left a pending one alone
C26_Witness ==
    /\ ret.op = "check_expired_approvals" /\ Len(ret.val) = 1
    /\ audit[Len(audit)].action = "approval_expired"
    /\ \E i \in 1..Len(pending_approvals) : pending_approvals[i].status = "pending"

\* C27: every request created by create_approval_request gets an id distinct
\* from the ids of the requests created before it in the same manager, also
\* within one clock second, so the number of stored requests equals the
\* number of create calls.
C27_EveryCreateIsStored == Len(pending_approvals) = NumCreates

\* The environments of the stored thread, before and after the step
EnvsOf(thread_id) == store[thread_id].environments

EnvsOfNext(thread_id) == store'[thread_id].environments

\* Some environment of the stored thread is in SignoffSent
AwaitsSignoff(thread_id) ==
    /\ thread_id \in DOMAIN store
    /\ \E e \in EnvName : EnvsOf(thread_id)[e].state = "SignoffSent"

\* C28: the email webhook persists nothing itself.  For an approval email
\* to a thread with an environment in SignoffSent it queues the background
\* task, and the task moves that environment (still in SignoffSent) to
\* Approved, stores the message id in its evidence emails and leaves the
\* other environments unchanged.  For any other email no task is queued and
\* no state or evidence changes.
C28_ApprovalEmailAdvances ==
    [][/\ ret'.op = "handle_email_update"
          => /\ store' = store
             /\ IF ret'.is_approval /\ AwaitsSignoff(ret'.thread_id)
                THEN /\ tasks' = Append(tasks, tasks'[Len(tasks')])
                     /\ tasks'[Len(tasks')].thread_id = ret'.thread_id
                     /\ tasks'[Len(tasks')].approval_email_id = ret'.message_id
                     /\ EnvsOf(ret'.thread_id)[tasks'[Len(tasks')].env_name].state
                            = "SignoffSent"
                ELSE tasks' = tasks
       /\ ret'.op = "advance_to_approved"
          => LET f == Head(tasks) IN
             IF /\ f.thread_id \in DOMAIN store
                /\ EnvsOf(f.thread_id)[f.env_name].state = "SignoffSent"
             THEN /\ EnvsOfNext(f.thread_id)[f.env_name].state = "Approved"
                  /\ f.approval_email_id
                        \in Range(EnvsOfNext(f.thread_id)[f.env_name].evidence.emails)
                  /\ \A e \in EnvName \ {f.env_name} :
                        EnvsOfNext(f.thread_id)[e] = EnvsOf(f.thread_id)[e]
                  /\ \A t \in DOMAIN store \ {f.thread_id} : store'[t] = store[t]
             ELSE store' = store]_vars

\* C28 witness: the background task has moved dev from SignoffSent to
\* Approved with the message id in its evidence
C28_Witness ==
    /\ ret.op = "advance_to_approved" /\ ret.advanced
    /\ EnvsOf(ret.thread_id)[ret.env].state = "Approved"
    /\ "m2@pingsso.agent" \in Range(EnvsOf(ret.thread_id)[ret.env].evidence.emails)
    /\ audit[Len(audit)].actor = "system"

\* C29: after every successful update_env_state and every successful
\* advance_environment_with_approval the stored thread's blockers and
\* next_actions are the concatenation of get_blockers and get_next_actions
\* over the three environments in their new states.
C29_DerivedListsRebuilt ==
    [][(/\ ret'.op \in {"update_env_state", "advance_environment_with_approval"}
        /\ ret'.exc = "none")
        => LET thread == store'[ret'.thread_id] IN
           /\ thread.blockers = AllBlockers(thread)
           /\ thread.next_actions = AllNextActions(thread)]_vars

\* The tools that create an approval request for the thread they are given
RequestingTools ==
    {"create_emergency_approval", "advance_environment_with_approval",
     "deploy_to_production_with_approval"}

\* C30: after create_emergency_approval or a gated operation has created an
\* approval request for a thread, get_approval_status for that thread
\* counts it in its summary, and lists the emergency request, which is
\* pending and unexpired, among the pending approvals.
C30_StatusReportsCreatedRequest ==
    [][(/\ ret.op \in RequestingTools
        /\ ret'.op = "get_approval_status"
        /\ ret'.thread_id = ret.thread_id)
        => /\ ret'.summary.total_approvals >= 1
           /\ ret.op = "create_emergency_approval"
                 => \E i \in 1..Len(ret'.pending_approvals) :
                        ret'.pending_approvals[i].id = ret.val]_vars

\* The approval_expired audit entries written for the request with this id
ExpiryEntries(id) ==
    {j \in 1..Len(audit) :
        audit[j].action = "approval_expired" /\ audit[j].details.approval_id = id}

\* C38: whenever a request has status expired, whether it was demoted by
\* check_expired_approvals, by get_pending_approvals or by a late
\* approve_request, exactly one approval_expired audit entry exists for it.
C38_EveryExpiryIsAudited ==
    \A i \in 1..Len(pending_approvals) :
        pending_approvals[i].status = "expired"
            => Cardinality(ExpiryEntries(pending_approvals[i].id)) = 1

\* The ticket after the webhook: a matching id gets the new status
TicketAfter(ticket, ticket_id, status) ==
    IF ticket.id = ticket_id THEN [ticket EXCEPT !.status = status] ELSE ticket

\* C40: the ticket-status webhook changes only the status field of the
\* tickets whose id matches the update: every environment state, all other
\* evidence and the lists of tickets stay as they were, and an id that
\* matches no stored ticket leaves every thread unchanged.
C40_TicketWebhookFrame ==
    [][ret'.op = "handle_ticket_update"
        => /\ DOMAIN store' = DOMAIN store
           /\ \A t \in DOMAIN store :
                 /\ store'[t] = [store[t] EXCEPT !.environments = store'[t].environments]
                 /\ \A e \in EnvName :
                       LET old == EnvsOf(t)[e]
                           new == EnvsOfNext(t)[e]
                       IN  /\ new.state = old.state
                           /\ new = [old EXCEPT !.evidence.tickets = new.evidence.tickets]
                           /\ Len(new.evidence.tickets) = Len(old.evidence.tickets)
                           /\ \A i \in 1..Len(old.evidence.tickets) :
                                 new.evidence.tickets[i] =
                                     TicketAfter(old.evidence.tickets[i],
                                                 ret'.ticket_id, ret'.status)
           /\ (\A t \in DOMAIN store : ~HasTicket(store[t], ret'.ticket_id))
                 => store' = store
           /\ audit' = audit /\ tasks' = tasks]_vars

\* C40 witness: the webhook resolved the open GWAM ticket of a stored thread
C40_Witness ==
    /\ ret.op = "handle_ticket_update" /\ ret.ticket_id = "GW-2"
    /\ ret.updated_threads # {}
    /\ \E t \in DOMAIN store, e \in EnvName :
          \E i \in 1..Len(EnvsOf(t)[e].evidence.tickets) :
              /\ EnvsOf(t)[e].evidence.tickets[i].id = "GW-2"
              /\ EnvsOf(t)[e].evidence.tickets[i].status = "resolved"
              /\ EnvsOf(t)[e].state # "NotStarted"

\* The states an environment of the stored thread was moved to, in the
\* order of the state_transition entries of the audit log
Path(env) ==
    LET Moves(a) == /\ a.action = "state_transition"
                    /\ a.thread_id = StoredThreadId
                    /\ a.details.environment = env
        moves == SelectSeq(audit, Moves)
    IN  [i \in 1..Len(moves) |-> moves[i].details.to_state]

\* The stored state of an environment is the last one it was moved to
StoredIsLastOfPath(env) ==
    store[StoredThreadId].environments[env].state
        = IF Path(env) = <<>> THEN "NotStarted" ELSE Path(env)[Len(Path(env))]

EntryRequirementMet(name, env) ==
    LET evidence == env.evidence
        kinds == {evidence.tickets[i].kind : i \in 1..Len(evidence.tickets)}
        labels == {evidence.screenshots[i].label : i \in 1..Len(evidence.screenshots)}
    IN  /\ env.state = "FormsRaised" => Len(evidence.tickets) >= 1
        /\ env.state = "CredsIssued" => evidence.secret # None
        /\ env.state = "AccessProvisioned" /\ name \in {"dev", "staging"}
              => kinds \cap {"GLAM", "GWAM"} # {}
        /\ env.state = "Validated" => {"login", "consent", "landing", "token"} \subseteq labels
        /\ env.state \in {"SignoffSent", "Approved"} => Len(evidence.emails) >= 1

\* C32: in every state of a thread's life under update_env_state and the
\* webhooks, the stored evidence of each environment meets the entry
\* requirement of the environment's state, and neither get_blockers nor the
\* stored blockers hold 'Waiting for sign-off approval'.
C32_StoredEvidenceMeetsRequirement ==
    \A t \in DOMAIN store :
        LET thread == store[t]
            waiting == Blocker("Waiting for sign-off approval", <<>>)
        IN  /\ \A name \in DOMAIN thread.environments :
                  /\ EntryRequirementMet(name, thread.environments[name])
                  /\ waiting \notin Range(get_blockers(thread.environments[name], thread))
            /\ waiting \notin Range(thread.blockers)

\* dev reached Approved through the email webhook's background task, after
\* the ticket webhook had resolved its GWAM ticket on the way
C32_Witness ==
    /\ ret.op = "advance_to_approved" /\ ret.advanced
    /\ LET dev == store[StoredThreadId].environments["dev"] IN
          /\ dev.state = "Approved"
          /\ dev.evidence.emails = <<"m1@pingsso.agent", "m2@pingsso.agent">>
          /\ \E i \in 1..Len(dev.evidence.tickets) :
                dev.evidence.tickets[i] = TicketRef("GW-2", "GWAM", "resolved")

\* C33: in every state of a thread's life under update_env_state, prod is
\* Complete only if staging is Complete, and staging is Complete only if dev
\* is Complete.
C33_CompleteImpliesPreviousComplete ==
    LET environments == store[StoredThreadId].environments IN
        /\ environments["prod"].state = "Complete"
              => environments["staging"].state = "Complete"
        /\ environments["staging"].state = "Complete"
              => environments["dev"].state = "Complete"

\* An environment is Complete, or was Complete and has since been moved to
\* a special state
CompleteOrLeftForSpecial(env) ==
    LET state == store[StoredThreadId].environments[env].state IN
        \/ state = "Complete"
        \/ state \in SPECIAL_STATES /\ "Complete" \in Range(Path(env))

\* C33 as amended: in every state of a thread's life under
\* update_env_state, if prod is Complete then staging is Complete or has
\* left Complete for a special state, and if staging is Complete then dev is
\* Complete or has left Complete for a special state.
C33_CompleteImpliesPreviousCompleted ==
    LET environments == store[StoredThreadId].environments IN
        /\ environments["prod"].state = "Complete" => CompleteOrLeftForSpecial("staging")
        /\ environments["staging"].state = "Complete" => CompleteOrLeftForSpecial("dev")

\* staging is Complete and dev, completed before it, is now Blocked
C33_Witness ==
    LET environments == store[StoredThreadId].environments IN
        /\ environments["staging"].state = "Complete"
        /\ environments["dev"].state = "Blocked"
        /\ ret.op = "update_env_state" /\ ret.exc = "none"
        /\ ret.env = "dev" /\ ret.new_state = "Blocked"

\* Position in the audit log of the first move of env to Complete, 0 if
\* there is none
FirstComplete(env) ==
    LET at == {i \in 1..Len(audit) : /\ audit[i].action = "state_transition"
                                     /\ audit[i].thread_id = StoredThreadId
                                     /\ audit[i].details.environment = env
                                     /\ audit[i].details.to_state = "Complete"}
    IN  IF at = {} THEN 0 ELSE CHOOSE i \in at : \A j \in at : i <= j

StateAt(env, i) ==
    LET at == {k \in 1..i : /\ audit[k].action = "state_transition"
                            /\ audit[k].thread_id = StoredThreadId
                            /\ audit[k].details.environment = env}
    IN  IF at = {} THEN "NotStarted"
        ELSE audit[CHOOSE k \in at : \A j \in at : j <= k].details.to_state

\* From the moment prev is Blocked or Abandoned while env is not Complete,
\* env is never Complete
NeverCompletesAfterStop(prev, env) ==
    \A i \in 0..Len(audit) :
        StateAt(prev, i) \in {"Blocked", "Abandoned"} /\ StateAt(env, i) # "Complete"
            => \A j \in i..Len(audit) : StateAt(env, j) # "Complete"

OrderedPath(env) ==
    LET IsOrdered(state) == state \in Range(STATE_ORDER)
    IN  SelectSeq(Path(env), IsOrdered)

ReturnedTrue(ts) ==
    {i \in 1..Len(ts) : ts[i].op = "update_env_state" /\ ts[i].pc = "done" /\ ts[i].exc = "none"}

\* C37: the audit log only grows, by one entry at a time, and never runs
\* ahead of persistence: an entry is appended only by a call whose
\* update_thread has committed the transition the entry describes, each
\* such call appends one entry, and a call reaches that point only in the
\* step that writes its new state and evidence to the store; this also
\* holds when a commit of the store or of the audit sink fails.
C37_AuditFollowsPersistence ==
    [][/\ Len(audit') \in {Len(audit), Len(audit) + 1}
       /\ SubSeq(audit', 1, Len(audit)) = audit
       /\ Len(audit') = Cardinality(ReturnedTrue(tasks'))
       /\ Len(audit') = Len(audit) + 1
             => \E i \in 1..Len(tasks) :
                   /\ tasks[i].pc = "persisted" /\ tasks'[i].pc = "done"
                   /\ tasks[i].entry = Some(audit'[Len(audit')])
                   /\ audit'[Len(audit')].action = "state_transition"
                   /\ audit'[Len(audit')].details.environment = tasks[i].env
                   /\ audit'[Len(audit')].details.to_state = tasks[i].new_state
       /\ \A i \in 1..Len(tasks) :
             tasks[i].pc # "persisted" /\ tasks'[i].pc = "persisted"
                => LET stored == store'[tasks[i].thread_id].environments[tasks[i].env] IN
                      /\ stored.state = tasks[i].new_state
                      /\ stored.evidence = tasks[i].evidence
      ]_vars

\* One call persisted and audited its transition; the other persisted its
\* own and then lost its audit entry to a failure of the audit sink
C37_Witness ==
    /\ Len(tasks) = 2 /\ Len(audit) = 1
    /\ tasks[1].pc = "done" /\ tasks[1].exc = "none"
    /\ tasks[1].entry = Some(audit[1])
    /\ tasks[2].pc = "done" /\ tasks[2].exc = "SQLAlchemyError" /\ tasks[2].entry # None
    /\ tasks[2].env # tasks[1].env
    /\ store[tasks[2].thread_id].environments[tasks[2].env].state = tasks[2].new_state

\* C39: however approval emails and their background tasks interleave, a
\* step changes the persisted state of an environment only from SignoffSent
\* to Approved; so an environment is advanced at most once and never beyond
\* Approved, and a task that comes later ends without changing any
\* persisted environment state.
C39_EmailAdvancesAtMostOnce ==
    [][\A t \in DOMAIN store, e \in EnvName :
          store'[t].environments[e].state # store[t].environments[e].state
              => /\ store[t].environments[e].state = "SignoffSent"
                 /\ store'[t].environments[e].state = "Approved"]_vars

====
